---- MODULE Spec2Model ----
(***************************************************************************)
(* A state-machine model of GoogleFormSubmitter (src/submit_google_form.py) *)
(* and of the run it performs: load the spreadsheet, open one browser      *)
(* session, map the form once, submit every row, release the session.      *)
(*                                                                         *)
(* Text is modelled as a sequence of one-character strings, so that        *)
(* normalisation, message formatting and substring tests are computed      *)
(* character by character, as the Python code computes them.               *)
(***************************************************************************)
EXTENDS Integers, Sequences, FiniteSets, TLC

-----------------------------------------------------------------------------
(* Bounds of the model.                                                    *)

\* The spreadsheets considered hold 0..MaxRows rows.
MaxRows == 2

-----------------------------------------------------------------------------
(* Text helpers (Python str operations used by the code).                  *)

UpperChars == <<"A","B","C","D","E","F","G","H","I","J","K","L","M",
                "N","O","P","Q","R","S","T","U","V","W","X","Y","Z">>
LowerChars == <<"a","b","c","d","e","f","g","h","i","j","k","l","m",
                "n","o","p","q","r","s","t","u","v","w","x","y","z">>
DigitChars == <<"0","1","2","3","4","5","6","7","8","9">>

\* A text is a sequence of characters.  A character is a one-character
\* string; a character a TLA+ string cannot hold is written as its Python
\* escape: "\\x0b" is '\x0b', "\\xc9" is '\xc9', "\\x60" is the
\* backtick.  The texts of the model hold ASCII and Latin-1 characters and
\* the other characters named in this section.

\* The capital letters of Latin-1 (\xc0 .. \xde without the multiplication
\* sign) and their small letters, 0x20 above them.
Latin1UpperChars ==
    <<"\\xc0","\\xc1","\\xc2","\\xc3","\\xc4","\\xc5","\\xc6","\\xc7",
      "\\xc8","\\xc9","\\xca","\\xcb","\\xcc","\\xcd","\\xce","\\xcf",
      "\\xd0","\\xd1","\\xd2","\\xd3","\\xd4","\\xd5","\\xd6","\\xd8",
      "\\xd9","\\xda","\\xdb","\\xdc","\\xdd","\\xde">>
Latin1LowerChars ==
    <<"\\xe0","\\xe1","\\xe2","\\xe3","\\xe4","\\xe5","\\xe6","\\xe7",
      "\\xe8","\\xe9","\\xea","\\xeb","\\xec","\\xed","\\xee","\\xef",
      "\\xf0","\\xf1","\\xf2","\\xf3","\\xf4","\\xf5","\\xf6","\\xf8",
      "\\xf9","\\xfa","\\xfb","\\xfc","\\xfd","\\xfe">>

\* The characters str.strip() strips and the regular expression \s matches:
\* those str.isspace() is true of.
WhitespaceChars ==
    {" ", "\t", "\n", "\r", "\f", "\\x0b", "\\x1c", "\\x1d", "\\x1e", "\\x1f",
     "\\x85", "\\xa0", "\\u1680", "\\u2000", "\\u2001", "\\u2002", "\\u2003",
     "\\u2004", "\\u2005", "\\u2006", "\\u2007", "\\u2008", "\\u2009",
     "\\u200a", "\\u2028", "\\u2029", "\\u202f", "\\u205f", "\\u3000"}

\* Of these characters, those with the Unicode property Cased and those
\* with the property Case_Ignorable.
CasedChars ==
    {UpperChars[i] : i \in 1..26} \cup {LowerChars[i] : i \in 1..26}
    \cup {Latin1UpperChars[i] : i \in 1..30}
    \cup {Latin1LowerChars[i] : i \in 1..30}
    \cup {"\\xaa", "\\xb5", "\\xba", "\\xdf", "\\xff"}
    \cup {"\\u0130", "\\u03a3", "\\u03c3", "\\u03c2"}
CaseIgnorableChars ==
    {"'", ".", ":", "^", "\\x60", "\\xa8", "\\xad", "\\xaf", "\\xb4",
     "\\xb7", "\\xb8", "\\u0307"}

\* str.lower() on one character that lowers to one character whatever is
\* around it.
LowerChar(c) ==
    IF \E i \in 1..26 : UpperChars[i] = c
    THEN LowerChars[CHOOSE i \in 1..26 : UpperChars[i] = c]
    ELSE IF \E i \in 1..30 : Latin1UpperChars[i] = c
    THEN Latin1LowerChars[CHOOSE i \in 1..30 : Latin1UpperChars[i] = c]
    ELSE c

\* Whether the capital sigma at s[i] is a final one: the nearest character
\* before it that is not case-ignorable is cased, and the nearest one
\* after it that is not case-ignorable, if any, is not.
FinalSigma(s, i) ==
    /\ \E j \in 1..(i - 1) :
          /\ s[j] \in CasedChars
          /\ s[j] \notin CaseIgnorableChars
          /\ \A k \in (j + 1)..(i - 1) : s[k] \in CaseIgnorableChars
    /\ ~\E j \in (i + 1)..Len(s) :
          /\ s[j] \in CasedChars
          /\ s[j] \notin CaseIgnorableChars
          /\ \A k \in (i + 1)..(j - 1) : s[k] \in CaseIgnorableChars

\* What str.lower() puts for s[i]: two characters, i and the combining dot
\* above, for '\u0130'; a final or a medial small sigma for '\u03a3'.
LowerAt(s, i) ==
    IF s[i] = "\\u0130" THEN <<"i", "\\u0307">>
    ELSE IF s[i] = "\\u03a3"
    THEN <<IF FinalSigma(s, i) THEN "\\u03c2" ELSE "\\u03c3">>
    ELSE <<LowerChar(s[i])>>

RECURSIVE LowerFrom(_, _)
LowerFrom(s, i) ==
    IF i > Len(s) THEN << >> ELSE LowerAt(s, i) \o LowerFrom(s, i + 1)

\* str.lower()
Lower(s) == LowerFrom(s, 1)

\* str.replace(c, ''): every occurrence of the character c removed.
RECURSIVE RemoveChar(_, _)
RemoveChar(s, c) ==
    IF s = << >> THEN << >>
    ELSE IF Head(s) = c THEN RemoveChar(Tail(s), c)
    ELSE <<Head(s)>> \o RemoveChar(Tail(s), c)

RECURSIVE LStrip(_)
LStrip(s) ==
    IF s # << >> /\ Head(s) \in WhitespaceChars THEN LStrip(Tail(s)) ELSE s

RECURSIVE RStrip(_)
RStrip(s) ==
    IF s # << >> /\ s[Len(s)] \in WhitespaceChars
    THEN RStrip(SubSeq(s, 1, Len(s) - 1))
    ELSE s

\* str.strip()
Strip(s) == RStrip(LStrip(s))

\* re.sub(r'\s+', ' ', s): every maximal run of whitespace becomes one space.
RECURSIVE CollapseWhitespace(_)
CollapseWhitespace(s) ==
    IF s = << >> THEN << >>
    ELSE IF Head(s) \in WhitespaceChars
         THEN <<" ">> \o CollapseWhitespace(LStrip(s))
         ELSE <<Head(s)>> \o CollapseWhitespace(Tail(s))

\* str(n) for a natural number n.
RECURSIVE StrNat(_)
StrNat(n) ==
    IF n < 10 THEN <<DigitChars[n + 1]>>
    ELSE StrNat(n \div 10) \o <<DigitChars[(n % 10) + 1]>>

\* text.zfill(width)
RECURSIVE zfill(_, _)
zfill(text, width) ==
    IF Len(text) >= width THEN text ELSE zfill(<<"0">> \o text, width)

\* sep.join(parts)
RECURSIVE Join(_, _)
Join(sep, parts) ==
    IF parts = << >> THEN << >>
    ELSE IF Len(parts) = 1 THEN parts[1]
    ELSE parts[1] \o sep \o Join(sep, Tail(parts))

\* Python's  sub in s  on strings.
Contains(s, sub) ==
    \E i \in 0..(Len(s) - Len(sub)) : SubSeq(s, i + 1, i + Len(sub)) = sub

\* s.startswith(prefix)
StartsWith(s, prefix) ==
    Len(prefix) <= Len(s) /\ SubSeq(s, 1, Len(prefix)) = prefix

-----------------------------------------------------------------------------
(* GoogleFormSubmitter.normalize                                           *)

\* The steps in another order: whitespace collapsed before the asterisks
\* and line breaks are removed.
normalize_CollapseFirst(text) ==
    RemoveChar(RemoveChar(CollapseWhitespace(Lower(Strip(text))), "\n"), "*")

\* text.replace('\n', '').replace('*', '').strip().lower(), then
\* re.sub(r'\s+', ' ', text); text is a str here (see py_str).
normalize(text) ==
    CollapseWhitespace(Lower(Strip(RemoveChar(RemoveChar(text, "\n"), "*"))))

-----------------------------------------------------------------------------
(* The form page: what the driver finds at form_url.                       *)
(*                                                                         *)
(* A page is [body, denied, divs]: whether a body element renders, whether *)
(* the page source holds both "sorry" and "access", and the candidate      *)
(* question containers in document order.  A container is                  *)
(* [marks, hasHeading, heading, inputs]: the discovery selectors (1..4, in  *)
(* the order of the code's list) that match it, whether it holds a         *)
(* role='heading' element and that element's text, and its input/textarea  *)
(* elements in document order, each [type, hint] (the type attribute or    *)
(* tag name, and the lower-cased aria-label + placeholder).                *)

\* The selectors list of _extract_form_mapping has four entries.
NumSelectors == 4

\* Selector 1 is //div[@role='listitem'].
ListItemSelector == 1

\* driver.find_elements(By.XPATH, selectors[k])
FindBySelector(page, k) == SelectSeq(page.divs, LAMBDA d : k \in d.marks)

\* The exceptions _extract_form_mapping and run raise themselves.
ExcPageFailed  == "Page failed to load"
ExcDenied      == "Form access denied - the form may be restricted"
ExcNoQuestions == "No form questions found. The form may not have loaded correctly."
ExcNoFields    == "No form fields detected! Check the form URL."
ExcExcel       == "pd.read_excel raised"
ExcCreate      == "webdriver.Chrome raised"
ExcDriver      == "WebDriverException"
NoExc          == "no exception"

\* A selector loop without the break: the matches of the last selector
\* that has any.
RECURSIVE find_questions_LastMatch(_, _)
find_questions_LastMatch(page, k) ==
    IF k > NumSelectors THEN << >>
    ELSE IF find_questions_LastMatch(page, k + 1) # << >>
    THEN find_questions_LastMatch(page, k + 1)
    ELSE FindBySelector(page, k)

\* The selector loop: the matches of the first selector that has any.
RECURSIVE find_questions(_, _)
find_questions(page, k) ==
    IF k > NumSelectors THEN << >>
    ELSE IF FindBySelector(page, k) # << >> THEN FindBySelector(page, k)
    ELSE find_questions(page, k + 1)

\* mapping[key] = info
MapPut(mapping, key, info) ==
    [k \in (DOMAIN mapping) \cup {key} |-> IF k = key THEN info ELSE mapping[k]]

EmptyMap == [k \in {} |-> 0]

\* A loop that keeps the entry a normalized label already has.
RECURSIVE map_questions_FirstWins(_, _, _, _)
map_questions_FirstWins(questions, idx, mapping, raised) ==
    IF idx >= Len(questions) THEN mapping
    ELSE LET q == questions[idx + 1] IN
         IF ~q.hasHeading \/ q.inputs = << >> \/ (idx + 1) \in raised
            \/ normalize(q.heading) \in DOMAIN mapping
         THEN map_questions_FirstWins(questions, idx + 1, mapping, raised)
         ELSE map_questions_FirstWins(questions, idx + 1,
                  MapPut(mapping, normalize(q.heading),
                         [xpath |-> [listitem |-> idx + 1],
                          type  |-> q.inputs[1].type,
                          label |-> q.heading,
                          index |-> idx + 1]), raised)

\* The loop over enumerate(questions): idx is 0-based, as in the code.  A
\* question is passed over (except Exception: continue) when it holds no
\* heading, when it holds no input or textarea, and when a driver call on
\* it raises: raised is the set of the questions (1-based) that happens to.
RECURSIVE map_questions(_, _, _, _)
map_questions(questions, idx, mapping, raised) ==
    IF idx >= Len(questions) THEN mapping
    ELSE LET q == questions[idx + 1] IN
         IF ~q.hasHeading \/ q.inputs = << >> \/ (idx + 1) \in raised
         THEN map_questions(questions, idx + 1, mapping, raised)
         ELSE map_questions(questions, idx + 1,
                  MapPut(mapping, normalize(q.heading),
                         [xpath |-> [listitem |-> idx + 1],
                          type  |-> q.inputs[1].type,
                          label |-> q.heading,
                          index |-> idx + 1]), raised)

\* _extract_form_mapping: [exc, mapping]; exc # NoExc when it raises.
\* raised: the questions a driver call of the question loop raises on.
extract_form_mapping(page, raised) ==
    IF ~page.body THEN [exc |-> ExcPageFailed, mapping |-> EmptyMap]
    ELSE IF page.denied THEN [exc |-> ExcDenied, mapping |-> EmptyMap]
    ELSE LET questions == find_questions(page, 1) IN
         IF questions = << >>
         THEN [exc |-> ExcNoQuestions, mapping |-> EmptyMap]
         ELSE [exc |-> NoExc,
               mapping |-> map_questions(questions, 0, EmptyMap, raised)]

-----------------------------------------------------------------------------
(* Cell values and GoogleFormSubmitter._parse_date_value.                  *)
(*                                                                         *)
(* A cell value is one of                                                  *)
(*   [t |-> "str", s |-> text]              a Python str                   *)
(*   [t |-> "num", n |-> an integer]        an int                         *)
(*   [t |-> "float", n |-> an integer,      a float of integral value,     *)
(*    e |-> a natural number]               n * 10^e, with the digits of n *)
(*                                          those repr(x) prints           *)
(*   [t |-> "nan"]                          float('nan'), a missing cell   *)
(*   [t |-> "ts", day, month, year]         pd.Timestamp or datetime, at   *)
(*                                          midnight                       *)
(*   [t |-> "date", day, month, year]       datetime.date                  *)
(*   [t |-> "nat"]                          pd.NaT, a missing date cell    *)
(*   [t |-> "other"]                        any other type; None stands    *)
(*                                          for them                       *)

StrVal(s) == [t |-> "str", s |-> s]
NumVal(n) == [t |-> "num", n |-> n]
FloatExp(n, e) == [t |-> "float", n |-> n, e |-> e]
FloatVal(n) == FloatExp(n, 0)
NanVal    == [t |-> "nan"]
TsVal(d, m, y) == [t |-> "ts", day |-> d, month |-> m, year |-> y]
DateVal(d, m, y) == [t |-> "date", day |-> d, month |-> m, year |-> y]
NatVal    == [t |-> "nat"]
OtherVal  == [t |-> "other"]

\* "nan"
TxtNan == <<"n","a","n">>

\* "NaT", "None", ".0", " 00:00:00"
TxtNaT == <<"N","a","T">>
TxtNone == <<"N","o","n","e">>
TxtPointZero == <<".","0">>
TxtMidnight == <<" ","0","0",":","0","0",":","0","0">>

\* str(n) for an int n.
StrInt(n) == IF n < 0 THEN <<"-">> \o StrNat(0 - n) ELSE StrNat(n)

\* date.isoformat(): YYYY-MM-DD
IsoDate(d, m, y) ==
    zfill(StrNat(y), 4) \o <<"-">> \o zfill(StrNat(m), 2) \o <<"-">>
    \o zfill(StrNat(d), 2)

\* digits without the zeros at its end.
RECURSIVE RStripZeros(_)
RStripZeros(digits) ==
    IF Len(digits) > 1 /\ digits[Len(digits)] = "0"
    THEN RStripZeros(SubSeq(digits, 1, Len(digits) - 1))
    ELSE digits

\* digits followed by e zeros: the digits of n * 10^e.
RECURSIVE AppendZeros(_, _)
AppendZeros(digits, e) ==
    IF e = 0 \/ digits = <<"0">> THEN digits
    ELSE AppendZeros(digits \o <<"0">>, e - 1)

\* repr(x) for a float x of integral value, given the digits Python
\* prints for it: positional with ".0" up to 16 digits, and from 1e+16 on
\* the first digit, the others behind a point, and the exponent.
float_repr(digits) ==
    IF Len(digits) <= 16 THEN digits \o TxtPointZero
    ELSE LET m == RStripZeros(digits) IN
         <<m[1]>> \o (IF Len(m) > 1 THEN <<".">> \o Tail(m) ELSE << >>)
         \o <<"e", "+">> \o zfill(StrNat(Len(digits) - 1), 2)

\* str(value)
py_str(value) ==
    CASE value.t = "str" -> value.s
      [] value.t = "num" -> StrInt(value.n)
      [] value.t = "float" ->
            IF value.n < 0
            THEN <<"-">> \o float_repr(AppendZeros(StrNat(0 - value.n),
                                                    value.e))
            ELSE float_repr(AppendZeros(StrNat(value.n), value.e))
      [] value.t = "nan" -> TxtNan
      [] value.t = "ts" ->
            IsoDate(value.day, value.month, value.year) \o TxtMidnight
      [] value.t = "date" -> IsoDate(value.day, value.month, value.year)
      [] value.t = "nat" -> TxtNaT
      [] value.t = "other" -> TxtNone

\* A date component that is None, and one that is float('nan').
None == -1
NaN  == -2
NoDate == [day |-> None, month |-> None, year |-> None]

\* The decimal digits outside ASCII the texts of the model hold: the
\* ARABIC-INDIC and the FULLWIDTH digits 0..9.
ArabicIndicDigits ==
    <<"\\u0660","\\u0661","\\u0662","\\u0663","\\u0664",
      "\\u0665","\\u0666","\\u0667","\\u0668","\\u0669">>
FullwidthDigits ==
    <<"\\uff10","\\uff11","\\uff12","\\uff13","\\uff14",
      "\\uff15","\\uff16","\\uff17","\\uff18","\\uff19">>
DigitScripts == <<DigitChars, ArabicIndicDigits, FullwidthDigits>>

\* [0-9] in a directive's regular expression: an ASCII digit.
IsAsciiDigit(c) == \E i \in 1..10 : DigitChars[i] = c

\* \d in a directive's regular expression: any decimal digit.
IsDigit(c) ==
    \E k \in 1..Len(DigitScripts) : \E i \in 1..10 : DigitScripts[k][i] = c

\* int(c) for a decimal digit c.
DigitVal(c) ==
    (CHOOSE i \in 1..10 :
        \E k \in 1..Len(DigitScripts) : DigitScripts[k][i] = c) - 1

\* s.split(sep) for a one-character separator.
RECURSIVE Split(_, _)
Split(s, sep) ==
    IF \A i \in 1..Len(s) : s[i] # sep THEN <<s>>
    ELSE LET i == CHOOSE j \in 1..Len(s) :
                      s[j] = sep /\ \A k \in 1..(j - 1) : s[k] # sep
         IN <<SubSeq(s, 1, i - 1)>> \o Split(SubSeq(s, i + 1, Len(s)), sep)

\* The strptime directives: the value a field's text stands for, None when
\* the directive's regular expression does not match the whole of it.
\*   %d  3[0-1]|[1-2]\d|0[1-9]|[1-9]| [1-9]
Directive_d(p) ==
    IF Len(p) = 1 /\ IsAsciiDigit(p[1]) /\ DigitVal(p[1]) >= 1
    THEN DigitVal(p[1])
    ELSE IF Len(p) = 2 /\ p[1] = " " /\ IsAsciiDigit(p[2])
            /\ DigitVal(p[2]) >= 1
         THEN DigitVal(p[2])
    ELSE IF Len(p) = 2 /\ p[1] \in {"1", "2"} /\ IsDigit(p[2])
         THEN 10 * DigitVal(p[1]) + DigitVal(p[2])
    ELSE IF Len(p) = 2 /\ IsAsciiDigit(p[1]) /\ IsAsciiDigit(p[2])
            /\ 10 * DigitVal(p[1]) + DigitVal(p[2]) \in (1..9) \cup {30, 31}
         THEN 10 * DigitVal(p[1]) + DigitVal(p[2])
    ELSE None

\*   %m  1[0-2]|0[1-9]|[1-9]
Directive_m(p) ==
    IF Len(p) = 1 /\ IsAsciiDigit(p[1]) /\ DigitVal(p[1]) >= 1
    THEN DigitVal(p[1])
    ELSE IF Len(p) = 2 /\ IsAsciiDigit(p[1]) /\ IsAsciiDigit(p[2])
            /\ 10 * DigitVal(p[1]) + DigitVal(p[2]) \in 1..12
         THEN 10 * DigitVal(p[1]) + DigitVal(p[2])
    ELSE None

\*   %Y  \d\d\d\d
Directive_Y(p) ==
    IF Len(p) = 4 /\ \A i \in 1..4 : IsDigit(p[i])
    THEN 1000 * DigitVal(p[1]) + 100 * DigitVal(p[2])
         + 10 * DigitVal(p[3]) + DigitVal(p[4])
    ELSE None

\*   %y  \d\d, 00..68 -> 2000.., 69..99 -> 1969..
Directive_y(p) ==
    IF Len(p) = 2 /\ IsDigit(p[1]) /\ IsDigit(p[2])
    THEN LET yy == 10 * DigitVal(p[1]) + DigitVal(p[2]) IN
         IF yy <= 68 THEN 2000 + yy ELSE 1900 + yy
    ELSE None

Directive(d, p) ==
    CASE d = "d" -> Directive_d(p)
      [] d = "m" -> Directive_m(p)
      [] d = "Y" -> Directive_Y(p)
      [] d = "y" -> Directive_y(p)

IsLeap(y) == (y % 4 = 0) /\ ((y % 100 # 0) \/ (y % 400 = 0))

DaysInMonth(y, m) ==
    IF m = 2 THEN (IF IsLeap(y) THEN 29 ELSE 28)
    ELSE IF m \in {4, 6, 9, 11} THEN 30 ELSE 31

\* datetime(year, month, day) accepts the triple.
ValidDate(d, m, y) ==
    /\ y \in 1..9999
    /\ m \in 1..12
    /\ d >= 1 /\ d <= DaysInMonth(y, m)

\* The format list with %d/%m/%Y tried before %m/%d/%Y.
DateFormats_DayFirst ==
    << [sep |-> "-", fields |-> <<"d", "m", "Y">>],
       [sep |-> "-", fields |-> <<"Y", "m", "d">>],
       [sep |-> "/", fields |-> <<"d", "m", "Y">>],
       [sep |-> "/", fields |-> <<"m", "d", "Y">>],
       [sep |-> "-", fields |-> <<"d", "m", "y">>],
       [sep |-> "/", fields |-> <<"Y", "m", "d">>] >>

\* The format list of _parse_date_value, in its order: the separator and
\* the directives of each format.
DateFormats ==
    << [sep |-> "-", fields |-> <<"d", "m", "Y">>],     \* %d-%m-%Y
       [sep |-> "-", fields |-> <<"Y", "m", "d">>],     \* %Y-%m-%d
       [sep |-> "/", fields |-> <<"m", "d", "Y">>],     \* %m/%d/%Y
       [sep |-> "/", fields |-> <<"d", "m", "Y">>],     \* %d/%m/%Y
       [sep |-> "-", fields |-> <<"d", "m", "y">>],     \* %d-%m-%y
       [sep |-> "/", fields |-> <<"Y", "m", "d">>] >>   \* %Y/%m/%d

\* datetime.strptime(s, fmt): the date, NoDate when it raises ValueError.
strptime(s, fmt) ==
    LET parts == Split(s, fmt.sep) IN
    IF Len(parts) # 3 THEN NoDate
    ELSE LET val(d) == Directive(d, parts[CHOOSE i \in 1..3 : fmt.fields[i] = d])
             yDir == IF \E i \in 1..3 : fmt.fields[i] = "Y" THEN "Y" ELSE "y"
             dd == val("d")
             mm == val("m")
             yy == val(yDir)
         IN IF dd = None \/ mm = None \/ yy = None THEN NoDate
            ELSE IF ~ValidDate(dd, mm, yy) THEN NoDate
            ELSE [day |-> dd, month |-> mm, year |-> yy]

\* The loop over the formats: the first that parses wins.
RECURSIVE parse_date_string(_, _)
parse_date_string(s, k) ==
    IF k > Len(DateFormats) THEN NoDate
    ELSE IF strptime(s, DateFormats[k]) # NoDate THEN strptime(s, DateFormats[k])
    ELSE parse_date_string(s, k + 1)

\* date.toordinal() of the spreadsheet epoch 1899-12-30, and of the first
\* and last day a pd.Timestamp can hold (1677-09-22, 2262-04-11).
EpochOrdinal == 693594
MinTimestampOrdinal == 612412
MaxTimestampOrdinal == 825914

\* Days before 1 January of year y (proleptic Gregorian, day 1 = 0001-01-01).
DaysBeforeYear(y) ==
    (y - 1) * 365 + ((y - 1) \div 4) - ((y - 1) \div 100) + ((y - 1) \div 400)

RECURSIVE DaysBeforeMonth(_, _)
DaysBeforeMonth(y, m) ==
    IF m = 1 THEN 0 ELSE DaysBeforeMonth(y, m - 1) + DaysInMonth(y, m - 1)

\* date.fromordinal(n)
FromOrdinal(n) ==
    LET y == CHOOSE yy \in 1..9999 :
                 DaysBeforeYear(yy) < n /\ n <= DaysBeforeYear(yy + 1)
        r == n - DaysBeforeYear(y)
        m == CHOOSE mm \in 1..12 :
                 DaysBeforeMonth(y, mm) < r
                 /\ r <= DaysBeforeMonth(y, mm) + DaysInMonth(y, mm)
    IN [day |-> r - DaysBeforeMonth(y, m), month |-> m, year |-> y]

\* pd.to_datetime(n, unit='D', origin='1899-12-30'), NoDate when it raises.
serial_to_date(n) ==
    IF EpochOrdinal + n < MinTimestampOrdinal
       \/ EpochOrdinal + n > MaxTimestampOrdinal
    THEN NoDate
    ELSE FromOrdinal(EpochOrdinal + n)

\* The number n * 10^e as a count of days; a number too large for a
\* Timestamp is left at the first multiple of ten beyond every Timestamp.
RECURSIVE serial_days(_, _)
serial_days(n, e) ==
    IF e = 0 \/ n = 0 \/ n > MaxTimestampOrdinal
       \/ n < 0 - MaxTimestampOrdinal
    THEN n
    ELSE serial_days(n * 10, e - 1)

\* _parse_date_value: [day, month, year].
parse_date_value(value) ==
    CASE value.t \in {"ts", "date"} ->
            [day |-> value.day, month |-> value.month, year |-> value.year]
      [] value.t = "str" -> parse_date_string(Strip(value.s), 1)
      [] value.t = "num" -> serial_to_date(value.n)
      [] value.t = "float" -> serial_to_date(serial_days(value.n, value.e))
      [] value.t \in {"nan", "nat"} -> [day |-> NaN, month |-> NaN, year |-> NaN]
      [] OTHER           -> NoDate

-----------------------------------------------------------------------------
(* The texts the code formats into its error messages.                     *)

\* "Row "
TxtRow ==
    <<"R","o","w"," ">>

\* ": Failed fields - "
TxtFailedFields ==
    <<":"," ","F","a","i","l","e","d"," ","f","i","e","l","d","s"," ","-",
      " ">>

\* ", "
TxtCommaSpace ==
    <<","," ">>

\* ": Submission confirmation not received"
TxtNoConfirmation ==
    <<":"," ","S","u","b","m","i","s","s","i","o","n"," ","c","o","n","f",
      "i","r","m","a","t","i","o","n"," ","n","o","t"," ","r","e","c","e",
      "i","v","e","d">>

\* ": Submit button not found"
TxtSubmitNotFound ==
    <<":"," ","S","u","b","m","i","t"," ","b","u","t","t","o","n"," ","n",
      "o","t"," ","f","o","u","n","d">>

\* ": "
TxtColon ==
    <<":"," ">>

\* str(e) of the TimeoutException WebDriverWait.until raises
TxtTimeoutException ==
    <<"M","e","s","s","a","g","e",":"," ","\n">>

\* str(e) of another WebDriverException
TxtWebDriverException ==
    <<"M","e","s","s","a","g","e",":"," ","c","h","r","o","m","e"," ","n",
      "o","t"," ","r","e","a","c","h","a","b","l","e","\n">>

-----------------------------------------------------------------------------
(* Filling one field: _fill_date_field and _fill_field_with_retry.         *)
(*                                                                         *)
(* What the driver does during a fill is an input: script[a] is the        *)
(* outcome of attempt a, "ok" (every driver call returns and the value     *)
(* read back is non-empty), "empty" (every call returns, the value read    *)
(* back is empty) or "exc" (a driver call raises).                         *)

\* max_retries: int = 3
max_retries == 3

AttemptOutcomes == {"ok", "empty", "exc"}
FillScripts == [1..max_retries -> AttemptOutcomes]

\* The containers //div[@role='listitem'] selects, in document order.
ListItems(page) == FindBySelector(page, ListItemSelector)

\* The input and textarea elements under (//div[@role='listitem'])[i].
InputsOfListItem(page, i) ==
    IF i \in 1..Len(ListItems(page)) THEN ListItems(page)[i].inputs ELSE << >>

\* re.search(r'\[(\d+)\]', xpath).group(1): the ordinal the xpath was built with.
xpath_index(xpath) == xpath.listitem

\* The markers the date filler looks for in aria-label + placeholder.
TxtDay == <<"d","a","y">>
TxtDD == <<"d","d">>
TxtMonth == <<"m","o","n","t","h">>
TxtMM == <<"m","m">>
TxtYear == <<"y","e","a","r">>
TxtYYYY == <<"y","y","y","y">>
TxtDash == <<"-">>

\* Keys.TAB
KeyTab == <<"TAB">>

\* str(c) of a date component: an int, or float('nan').
component_str(c) == IF c = NaN THEN TxtNan ELSE StrNat(c)

\* The positions, in document order, of the inputs whose type is in types.
Positions(inputs, types) ==
    SelectSeq([i \in 1..Len(inputs) |-> i], LAMBDA i : inputs[i].type \in types)

\* The type _extract_form_mapping records for a textarea: its tag name.
TextAreaTag == "textarea"

\* The positions of the elements //input selects: every input element,
\* whatever its type, and no textarea.
InputPositions(inputs) ==
    SelectSeq([i \in 1..Len(inputs) |-> i],
              LAMBDA i : inputs[i].type # TextAreaTag)

\* A filler that looks for a date-typed input first.
date_strategy_DateInputFirst(inputs) ==
    IF Positions(inputs, {"date"}) # << >> THEN "date_input"
    ELSE IF Len(Positions(inputs, {"text", "tel"})) >= 3 THEN "three_inputs"
    ELSE IF InputPositions(inputs) # << >> THEN "first_input"
    ELSE "none"

\* The branch one attempt of _fill_date_field takes: three or more text or
\* tel inputs, else a date-typed input, else any input, else none.
date_strategy(inputs) ==
    IF Len(Positions(inputs, {"text", "tel"})) >= 3 THEN "three_inputs"
    ELSE IF Positions(inputs, {"date"}) # << >> THEN "date_input"
    ELSE IF InputPositions(inputs) # << >> THEN "first_input"
    ELSE "none"

\* What the three-inputs branch sends to an input with this label text:
\* << >> when the text holds no marker and send_keys is not called.
date_component(hint, parsed) ==
    IF Contains(hint, TxtDay) \/ Contains(hint, TxtDD)
    THEN <<zfill(component_str(parsed.day), 2)>>
    ELSE IF Contains(hint, TxtMonth) \/ Contains(hint, TxtMM)
    THEN <<zfill(component_str(parsed.month), 2)>>
    ELSE IF Contains(hint, TxtYear) \/ Contains(hint, TxtYYYY)
    THEN <<component_str(parsed.year)>>
    ELSE << >>

\* The send_keys calls of the three-inputs branch over the inputs at the
\* positions ps, each [input, keys].
RECURSIVE three_inputs_keys(_, _, _)
three_inputs_keys(inputs, ps, parsed) ==
    IF ps = << >> THEN << >>
    ELSE LET c == date_component(inputs[Head(ps)].hint, parsed) IN
         (IF c = << >> THEN << >>
          ELSE <<[input |-> Head(ps), keys |-> c[1]]>>)
         \o three_inputs_keys(inputs, Tail(ps), parsed)

\* What a completed attempt of _fill_date_field wrote, and into which input
\* of the container: [input, keys] per send_keys call (or value set by
\* script, for the date-typed input).
date_keys(inputs, parsed) ==
    CASE date_strategy(inputs) = "three_inputs" ->
            three_inputs_keys(inputs, Positions(inputs, {"text", "tel"}), parsed)
      [] date_strategy(inputs) = "date_input" ->
            <<[input |-> Positions(inputs, {"date"})[1],
               keys |-> component_str(parsed.year) \o TxtDash
                        \o zfill(component_str(parsed.month), 2) \o TxtDash
                        \o zfill(component_str(parsed.day), 2)]>>
      [] date_strategy(inputs) = "first_input" ->
            <<[input |-> InputPositions(inputs)[1],
               keys |-> zfill(component_str(parsed.day), 2) \o TxtDash
                        \o zfill(component_str(parsed.month), 2) \o TxtDash
                        \o component_str(parsed.year)],
              [input |-> InputPositions(inputs)[1], keys |-> KeyTab]>>
      [] OTHER -> << >>

\* One attempt of the date-filling loop: "ok" when a branch returns True,
\* "exc" when a driver call raises, "empty" when no branch applies (the
\* container holds no input) and the attempt ends without a return.
fill_date_attempt(inputs, outcome) ==
    IF outcome = "exc" THEN "exc"
    ELSE IF date_strategy(inputs) # "none" THEN "ok"
    ELSE "empty"

\* An attempt that returns True without looking at the value read back.
fill_attempt_Unverified(inputs, outcome) ==
    IF inputs = << >> THEN "exc"
    ELSE IF outcome = "empty" THEN "ok" ELSE outcome

\* One attempt of the retry loop of _fill_field_with_retry: the wait for the
\* field under the stored xpath raises when there is none; otherwise the
\* attempt succeeds when the value read back is non-empty.
fill_attempt(inputs, outcome) ==
    IF inputs = << >> THEN "exc" ELSE outcome

\* for attempt in range(retries), from attempt a on, in _fill_date_field
\* (is_date) or in _fill_field_with_retry: [ok, attempts, raised], the
\* result, the attempts made and how many of them raised.
RECURSIVE retry_loop(_, _, _, _, _, _)
retry_loop(is_date, inputs, script, retries, a, raised) ==
    IF a >= retries THEN [ok |-> FALSE, attempts |-> a, raised |-> raised]
    ELSE LET res == IF is_date THEN fill_date_attempt(inputs, script[a + 1])
                    ELSE fill_attempt(inputs, script[a + 1])
         IN IF res = "ok"
            THEN [ok |-> TRUE, attempts |-> a + 1, raised |-> raised]
            ELSE retry_loop(is_date, inputs, script, retries, a + 1,
                            IF res = "exc" THEN raised + 1 ELSE raised)

\* A filler that parses the value inside the retry loop.
fill_date_field_ParseInLoop(page, xpath, value, retries, script) ==
    LET parsed == parse_date_value(value)
        inputs == InputsOfListItem(page, xpath_index(xpath))
        r      == retry_loop(TRUE, inputs, script, retries, 0, 0)
    IN IF parsed.day = None \/ parsed.month = None \/ parsed.year = None
       THEN [ok |-> FALSE, attempts |-> retries, raised |-> retries,
             strategy |-> "none", typed |-> << >>]
       ELSE [ok |-> r.ok, attempts |-> r.attempts, raised |-> r.raised,
             strategy |-> IF r.ok THEN date_strategy(inputs) ELSE "none",
             typed |-> IF r.ok THEN date_keys(inputs, parsed) ELSE << >>]

\* _fill_date_field: [ok, attempts, raised, strategy, typed], the result,
\* the attempts made (each begins with a find_elements call), how many of
\* them raised, and the branch that returned True with what it wrote.
fill_date_field(page, xpath, value, retries, script) ==
    LET parsed == parse_date_value(value)
        inputs == InputsOfListItem(page, xpath_index(xpath))
        r      == retry_loop(TRUE, inputs, script, retries, 0, 0)
    IN IF parsed.day = None \/ parsed.month = None \/ parsed.year = None
       THEN [ok |-> FALSE, attempts |-> 0, raised |-> 0,
             strategy |-> "none", typed |-> << >>]
       ELSE [ok |-> r.ok, attempts |-> r.attempts, raised |-> r.raised,
             strategy |-> IF r.ok THEN date_strategy(inputs) ELSE "none",
             typed |-> IF r.ok THEN date_keys(inputs, parsed) ELSE << >>]

\* What the attempt of _fill_field_with_retry that returned True sent to
\* the field: str(value), and a TAB for an email field.
field_keys(field_type, value) ==
    <<[input |-> 1, keys |-> py_str(value)]>>
    \o (IF field_type = "email" THEN <<[input |-> 1, keys |-> KeyTab]>>
        ELSE << >>)

\* _fill_field_with_retry
fill_field_with_retry(page, field_info, value, script) ==
    IF field_info.type = "date"
    THEN fill_date_field(page, field_info.xpath, value, max_retries, script)
    ELSE LET r == retry_loop(FALSE,
                      InputsOfListItem(page, field_info.xpath.listitem),
                      script, max_retries, 0, 0)
         IN [ok |-> r.ok, attempts |-> r.attempts, raised |-> r.raised,
             strategy |-> IF r.ok THEN "field" ELSE "none",
             typed |-> IF r.ok THEN field_keys(field_info.type, value)
                       ELSE << >>]

-----------------------------------------------------------------------------
(* The inputs of a run: the spreadsheet and the page behind form_url.      *)

\* The column labels pd.read_excel gives: a str for a header cell holding
\* text, an int for one holding a number.
ColName == StrVal(<<"N","A","M","E","\\x0b">>)  \* 'NAME\x0b' matches "Name *"
ColDob  == StrVal(<<"d","o","b">>)           \* "dob"  matches "DoB"
ColZip  == StrVal(<<"Z","i","p">>)           \* "Zip"  matches no label
Col2024 == NumVal(2024)                      \* 2024   matches "2024"

\* The columns of the spreadsheet, in their order.
Columns == <<ColName, ColDob, ColZip>>

\* Row i (1-based) of the spreadsheet, as row.items() yields it: the date
\* column holds a date text in odd rows and an unparseable text in even rows.
RowAt(i) ==
    << <<ColName, StrVal(<<"A","s","h","a">>)>>,
       <<ColDob, IF i % 2 = 1 THEN StrVal(<<"1","5","-","0","8","-","1","9","9","0">>)
                 ELSE StrVal(<<"n","o","t","-","a","-","d","a","t","e">>)>>,
       <<ColZip, NumVal(33100)>> >>

\* pd.read_excel(excel_path) for a sheet of n rows (index 0..n-1).
DataFrame(n) == [i \in 1..n |-> RowAt(i)]

\* A sheet of one row whose second header cell holds the number 2024.
YearFrame ==
    << << <<ColName, StrVal(<<"A","s","h","a">>)>>,
          <<Col2024, NumVal(33100)>> >> >>

TextInput  == [type |-> "text", hint |-> << >>]
EmailInput == [type |-> "email", hint |-> << >>]
DateInput  == [type |-> "date", hint |-> << >>]

Question(marks, heading, inputs) ==
    [marks |-> marks, hasHeading |-> TRUE, heading |-> heading, inputs |-> inputs]

LblName   == <<"N","a","m","e"," ","*">>     \* "Name *"
LblChoice == <<"C","h","o","i","c","e">>     \* "Choice"
LblDob    == <<"D","o","B">>               \* "DoB"
Lbl2024   == <<"2","0","2","4">>           \* "2024"

\* A form of three questions: a text question, a choice question (no
\* primitive input) and a date question.
PageForm(marks) ==
    [body |-> TRUE, denied |-> FALSE, submit |-> TRUE,
     divs |-> << Question(marks, LblName, <<TextInput>>),
                 Question(marks, LblChoice, << >>),
                 Question(marks, LblDob, <<DateInput>>) >>]

\* A form of two text questions, the second headed "2024".
PageYear ==
    [body |-> TRUE, denied |-> FALSE, submit |-> TRUE,
     divs |-> << Question({1}, LblName, <<TextInput>>),
                 Question({1}, Lbl2024, <<TextInput>>) >>]

Pages ==
    { PageForm({1}),                       \* role='listitem' containers
      PageYear,
      PageForm({2, 4}),                    \* legacy class markers only
      [PageForm({1}) EXCEPT !.submit = FALSE],                 \* no Submit control
      [PageForm({1}) EXCEPT !.body = FALSE],                   \* never renders
      [PageForm({1}) EXCEPT !.denied = TRUE],                  \* restricted form
      [PageForm({1}) EXCEPT !.divs = << >>],                   \* no question
      [PageForm({1}) EXCEPT !.divs = <<Question({1}, LblChoice, << >>)>>] }

-----------------------------------------------------------------------------
(* The state of one call of GoogleFormSubmitter.run.                       *)

VARIABLES
    pc,             \* where run stands
    df,             \* the rows pd.read_excel returns
    page,           \* the page behind form_url
    has_callback,   \* whether run was given a progress_callback
    driver,         \* self.driver: "none", "open" or "quit"
    form_map,       \* self.form_map
    errors,         \* self.errors
    total_rows,     \* total_rows
    index,          \* the index of the row of the loop (0-based)
    col,            \* the position in row.items() of _submit_row's loop
    filled_count,   \* filled_count of _submit_row
    failed_fields,  \* failed_fields of _submit_row
    row_log,        \* the driver interactions of the current _submit_row call
    row_result,     \* what the last _submit_row call returned
    history,        \* per finished _submit_row call: the fields that failed
                    \* to fill and whether the confirmation was observed
    attempted,      \* the row indexes _submit_row was called with, in order
    success_count,  \* success_count of run
    fail_count,     \* fail_count of run
    callbacks,      \* the calls of progress_callback made so far, in order
    exc,            \* the exception propagating out of run's try block
    ret,            \* the value of run's return statement
    outcome,        \* what the caller of run got: nothing yet, a result, an exception
    job_status,     \* app.py: the job_status dict, job id -> record
    task,           \* app.py: where the background task stands and its job_id
    snapshot,       \* app.py: what the last GET /status/{job_id} answered
    call            \* one call of a function taken alone: arguments and result

\* The variables of one call of run.
runVars == <<pc, df, page, has_callback, driver, form_map, errors, total_rows,
             index, col, filled_count, failed_fields, row_log, row_result,
             history, attempted, success_count, fail_count, callbacks, exc, ret,
             outcome>>

\* The variables of app.py that run itself never touches.
appVars == <<task, snapshot>>

vars == <<runVars, job_status, appVars, call>>

rowVars == <<col, filled_count, failed_fields, row_log>>
countVars == <<success_count, fail_count, callbacks>>
inputVars == <<df, page, has_callback>>

\* The log of one _submit_row call: whether the form was opened, the columns
\* the Field Filler was called for and those skipped, whether a fill attempt
\* raised, what the wait for the Submit control did ("none": not reached),
\* whether the click script ran, whether the confirmation was waited for
\* and observed, whether a driver call outside the Field Filler failed,
\* whether ', '.join(failed_fields) raised, and the length of self.errors
\* when the call began.
NoRowLog ==
    [navigated |-> FALSE, filled |-> << >>, skipped |-> << >>,
     fill_raised |-> FALSE, submit_lookup |-> "none", clicked |-> FALSE,
     confirm_waited |-> FALSE, confirmed |-> FALSE, driver_failed |-> FALSE,
     join_raised |-> FALSE, errors_before |-> 0]

NoResult == [total_rows |-> 0, success_count |-> 0, fail_count |-> 0,
             errors |-> << >>]

\* What a driver call can do: return, time out (TimeoutException) or raise
\* another WebDriverException.
DriverOutcomes == {"ok", "timeout", "exc"}

\* str(e) of the exception a driver call raised.
ExcText(o) == IF o = "timeout" THEN TxtTimeoutException ELSE TxtWebDriverException

\* The message written with the 0-based index.
RowMsg_ZeroBased(row_index, tail) == TxtRow \o StrNat(row_index) \o tail

\* f"Row {row_index + 1}{tail}"
RowMsg(row_index, tail) == TxtRow \o StrNat(row_index + 1) \o tail

TxtProcessing == <<"P","r","o","c","e","s","s","i","n","g"," ","r","o","w"," ">>
TxtSlash == <<"/">>

\* f"Processing row {index + 1}/{total_rows}"
ProgressMsg(i, n) == TxtProcessing \o StrNat(i + 1) \o TxtSlash \o StrNat(n)

-----------------------------------------------------------------------------
(* app.py: the job_status dict and the callback run_submission_task gives  *)
(* to run.                                                                 *)

\* The job ids uuid4 hands out, and the task of no job.
JobIds == {1}
NoJob == 0

\* job_status = {}
NoJobs == << >>

NoTask == [pc |-> "none", job_id |-> NoJob]
NoSnapshot == [kind |-> "none"]
NoCall == [fn |-> "none"]

\* "Job queued"
TxtJobQueued == <<"J","o","b"," ","q","u","e","u","e","d">>

\* "Completed: "
TxtCompleted == <<"C","o","m","p","l","e","t","e","d",":"," ">>

\* " successful, "
TxtSuccessful == <<" ","s","u","c","c","e","s","s","f","u","l",","," ">>

\* " failed"
TxtFailed == <<" ","f","a","i","l","e","d">>

\* f"Completed: {result['success_count']} successful, {result['fail_count']} failed"
CompletedMsg(result) ==
    TxtCompleted \o StrNat(result.success_count) \o TxtSuccessful
    \o StrNat(result.fail_count) \o TxtFailed

\* A job stored as running from the start.
new_job_Running(job_id) ==
    [job_id |-> job_id, status |-> "running", total_rows |-> 0,
     success_count |-> 0, fail_count |-> 0, current_row |-> 0,
     message |-> TxtJobQueued, errors |-> << >>]

\* The record submit_form stores for a new job.
new_job(job_id) ==
    [job_id |-> job_id, status |-> "pending", total_rows |-> 0,
     success_count |-> 0, fail_count |-> 0, current_row |-> 0,
     message |-> TxtJobQueued, errors |-> << >>]

\* The update the callback makes with the row counted before the call.
progress_callback_Stale(jobs, job_id, current_row, total, success, fail, message) ==
    [jobs EXCEPT ![job_id] =
        [@ EXCEPT !.current_row = current_row - 1, !.total_rows = total,
                  !.success_count = success, !.fail_count = fail,
                  !.message = message]]

\* progress_callback of run_submission_task: job_status[job_id].update({...})
progress_callback(jobs, job_id, current_row, total, success, fail, message) ==
    [jobs EXCEPT ![job_id] =
        [@ EXCEPT !.current_row = current_row, !.total_rows = total,
                  !.success_count = success, !.fail_count = fail,
                  !.message = message]]

\* The call of the callback by run: job_id is the job the callback was made
\* for, NoJob when run was given another callback or none.
call_progress_callback(jobs, supplied, job_id, i, n, success, fail) ==
    IF supplied /\ job_id # NoJob
    THEN progress_callback(jobs, job_id, i + 1, n, success, fail,
                           ProgressMsg(i, n))
    ELSE jobs

\* job_status[job_id]["status"] = "running"
task_started(jobs, job_id) ==
    [jobs EXCEPT ![job_id] = [@ EXCEPT !.status = "running"]]

\* job_status[job_id].update({"status": "completed", ...}) with run's result
task_completed(jobs, job_id, result) ==
    [jobs EXCEPT ![job_id] =
        [@ EXCEPT !.status = "completed",
                  !.success_count = result.success_count,
                  !.fail_count = result.fail_count,
                  !.total_rows = result.total_rows,
                  !.message = CompletedMsg(result),
                  !.errors = result.errors]]

\* job_status[job_id].update({"status": "failed", "message": str(e)}); the
\* text of the exception is kept as one symbol.
task_failed(jobs, job_id, e) ==
    [jobs EXCEPT ![job_id] = [@ EXCEPT !.status = "failed", !.message = <<e>>]]

\* get_job_status: 404 for an unknown id, else JobStatus(**job_status[job_id])
get_job_status(jobs, job_id) ==
    IF job_id \notin DOMAIN jobs
    THEN [kind |-> "404", job_id |-> job_id]
    ELSE [kind |-> "json", job_id |-> job_id, body |-> jobs[job_id]]

-----------------------------------------------------------------------------
(* The initial states.                                                     *)

\* The locals and attributes of a run that has not done anything yet.
RunNotStarted ==
    /\ driver = "none"
    /\ form_map = EmptyMap
    /\ errors = << >>
    /\ total_rows = 0
    /\ index = 0
    /\ col = 1
    /\ filled_count = 0
    /\ failed_fields = << >>
    /\ row_log = NoRowLog
    /\ row_result = FALSE
    /\ history = << >>
    /\ attempted = << >>
    /\ success_count = 0
    /\ fail_count = 0
    /\ callbacks = << >>
    /\ exc = NoExc
    /\ ret = NoResult
    /\ outcome = [kind |-> "none"]

\* No job, no poll.
AppNotStarted ==
    /\ job_status = NoJobs
    /\ task = NoTask
    /\ snapshot = NoSnapshot

\* run called on its own: a sheet, a page, with or without a callback.
Init ==
    /\ pc = "start"
    /\ df \in {DataFrame(n) : n \in 0..MaxRows} \cup {YearFrame}
    /\ page \in Pages
    /\ has_callback \in BOOLEAN
    /\ RunNotStarted
    /\ AppNotStarted
    /\ call = NoCall

-----------------------------------------------------------------------------
(* GoogleFormSubmitter._submit_row, in four steps: open the form, fill     *)
(* one column after the other, record the fields that failed, submit and   *)
(* wait for the confirmation.                                              *)
(* Each step yields [done, ok, errors, escaped]: whether _submit_row has   *)
(* returned, what it returned, self.errors after the step, and the         *)
(* exception that left _submit_row (NoExc: none).                          *)

\* A handler that records the error and raises it again.
submit_row_except_Reraise(errs, row_index, text) ==
    [done |-> TRUE, ok |-> FALSE, escaped |-> ExcDriver,
     errors |-> Append(errs, TxtRow \o StrNat(row_index + 1) \o TxtColon
                             \o text)]

\* The except Exception handler of _submit_row; text is str(e).
submit_row_except(errs, row_index, text) ==
    [done |-> TRUE, ok |-> FALSE, escaped |-> NoExc,
     errors |-> Append(errs, RowMsg(row_index, TxtColon \o text))]

\* driver.get(form_url) and the wait for a role='listitem' container; o is
\* what the driver did.
submit_row_open(errs, row_index, o) ==
    IF o = "ok"
    THEN [done |-> FALSE, ok |-> FALSE, escaped |-> NoExc, errors |-> errs]
    ELSE submit_row_except(errs, row_index, ExcText(o))

\* The column name looked up as it is written in the sheet.
column_is_mapped_Exact(fmap, column) == py_str(column) \in DOMAIN fmap

\* key in self.form_map, for key = self.normalize(col); normalize takes
\* str(col) of a label that is no str.
column_is_mapped(fmap, column) == normalize(py_str(column)) \in DOMAIN fmap

\* The step of the loop over row.items() for one column: [filled_count,
\* failed_fields, called]; filled is what _fill_field_with_retry returned
\* (read only when the column is mapped).
submit_row_fill(fmap, column, filled, count, failed) ==
    IF column_is_mapped(fmap, column)
    THEN IF filled
         THEN [filled_count |-> count + 1, failed_fields |-> failed, called |-> TRUE]
         ELSE [filled_count |-> count, failed_fields |-> Append(failed, column),
               called |-> TRUE]
    ELSE [filled_count |-> count, failed_fields |-> failed, called |-> FALSE]

\* The texts of the labels of failed, all of them str.
LabelTexts(failed) == [i \in 1..Len(failed) |-> failed[i].s]

\* The 0-based position of the first label of failed that is no str, None
\* when every label is one: ', '.join(failed_fields) raises TypeError for
\* that item.
join_error(failed) ==
    IF \A i \in 1..Len(failed) : failed[i].t = "str" THEN None
    ELSE (CHOOSE i \in 1..Len(failed) :
             /\ failed[i].t # "str"
             /\ \A j \in 1..(i - 1) : failed[j].t = "str") - 1

TxtSequenceItem == <<"s","e","q","u","e","n","c","e"," ","i","t","e","m"," ">>
TxtExpectedStr ==
    <<":"," ","e","x","p","e","c","t","e","d"," ","s","t","r"," ",
      "i","n","s","t","a","n","c","e",","," ">>
TxtFound == <<" ","f","o","u","n","d">>
TxtInt == <<"i","n","t">>
TxtFloat == <<"f","l","o","a","t">>

\* str(e) of that TypeError:
\* "sequence item 0: expected str instance, int found"
TypeErrorText(failed) ==
    TxtSequenceItem \o StrNat(join_error(failed)) \o TxtExpectedStr
    \o (IF failed[join_error(failed) + 1].t = "num" THEN TxtInt ELSE TxtFloat)
    \o TxtFound

\* The failed fields printed but not appended to self.errors.
record_failed_fields_Dropped(errs, row_index, failed) == errs

\* if failed_fields: self.errors.append(...), the labels being str.
record_failed_fields(errs, row_index, failed) ==
    IF failed # << >>
    THEN Append(errs, RowMsg(row_index,
                    TxtFailedFields \o Join(TxtCommaSpace, LabelTexts(failed))))
    ELSE errs

\* Lines 445-448: the message for the failed fields is appended, or the
\* join raises and the handler of line 483 ends the row.
submit_row_record(errs, row_index, failed) ==
    IF join_error(failed) # None
    THEN submit_row_except(errs, row_index, TypeErrorText(failed))
    ELSE [done |-> FALSE, ok |-> FALSE, escaped |-> NoExc,
          errors |-> record_failed_fields(errs, row_index, failed)]

\* The first call of the submit sequence that does not return: the wait for
\* the Submit control ("find"), the scroll script, the click script, the
\* wait for the confirmation; "none" when all four return.
FirstFailure(o) ==
    IF o.find # "ok" THEN "find"
    ELSE IF o.scroll # "ok" THEN "scroll"
    ELSE IF o.click # "ok" THEN "click"
    ELSE IF o.confirm # "ok" THEN "confirm"
    ELSE "none"

\* A confirmation wait whose except branch returns True as well.
wait_for_submission_confirmation_Optimistic(o) == o \in {"ok", "timeout"}

\* _wait_for_submission_confirmation: "ok" -> True, "timeout" -> False,
\* "exc": the exception propagates.
wait_for_submission_confirmation(o) == o = "ok"

\* An all-or-nothing _submit_row: a row with a failed field returns False.
submit_row_submit_AllOrNothing(errs1, row_index, failed, o) ==
    LET step  == FirstFailure(o)
    IN IF step = "none"
       THEN [done |-> TRUE, ok |-> (failed = << >>),
             escaped |-> NoExc, errors |-> errs1]
       ELSE IF o[step] = "timeout"
       THEN [done |-> TRUE, ok |-> FALSE, escaped |-> NoExc,
             errors |-> Append(errs1, RowMsg(row_index,
                           IF step = "confirm" THEN TxtNoConfirmation
                           ELSE TxtSubmitNotFound))]
       ELSE submit_row_except(errs1, row_index, ExcText(o[step]))

\* The submit sequence, lines 450-481, to the end of _submit_row; errs1 is
\* self.errors as line 447 left it and o what the driver did at each call.
\* failed_fields is not read here: the sequence is the same whatever
\* failed to fill.
submit_row_submit(errs1, row_index, failed, o) ==
    LET step  == FirstFailure(o)
    IN IF step = "none"
       THEN [done |-> TRUE, ok |-> wait_for_submission_confirmation(o.confirm),
             escaped |-> NoExc, errors |-> errs1]
       ELSE IF step = "confirm" /\ o.confirm = "timeout"
       THEN [done |-> TRUE, ok |-> wait_for_submission_confirmation(o.confirm),
             escaped |-> NoExc,
             errors |-> Append(errs1, RowMsg(row_index, TxtNoConfirmation))]
       ELSE IF step # "confirm" /\ o[step] = "timeout"
       THEN [done |-> TRUE, ok |-> FALSE, escaped |-> NoExc,
             errors |-> Append(errs1, RowMsg(row_index, TxtSubmitNotFound))]
       ELSE submit_row_except(errs1, row_index, ExcText(o[step]))

SubmitOutcomes ==
    [find : DriverOutcomes, scroll : DriverOutcomes,
     click : DriverOutcomes, confirm : DriverOutcomes]

\* The driver interactions of the submit sequence under outcomes o.
SubmitLog(log, o) ==
    [log EXCEPT !.submit_lookup = o.find,
                !.clicked = (FirstFailure(o) \in {"confirm", "none"}),
                !.confirm_waited = (FirstFailure(o) \in {"confirm", "none"}),
                !.confirmed = (FirstFailure(o) = "none"),
                !.driver_failed = (FirstFailure(o) # "none")]

-----------------------------------------------------------------------------
(* GoogleFormSubmitter.run                                                 *)

\* df = pd.read_excel(self.excel_path); total_rows = len(df).  A failure
\* propagates to the caller: no try block is entered yet.
ReadExcel ==
    /\ pc = "start"
    /\ \/ /\ pc' = "create"
          /\ total_rows' = Len(df)
          /\ UNCHANGED outcome
       \/ /\ pc' = "done"
          /\ outcome' = [kind |-> "raised", exc |-> ExcExcel]
          /\ UNCHANGED total_rows
    /\ UNCHANGED <<inputVars, job_status, appVars, call, driver, form_map, errors, index, rowVars,
                   row_result, history, attempted, countVars, exc, ret>>

\* self.driver = self._create_driver(); self.errors = []
CreateDriver ==
    /\ pc = "create"
    /\ \/ /\ pc' = "load"
          /\ driver' = "open"
          /\ errors' = << >>
          /\ UNCHANGED outcome
       \/ /\ pc' = "done"
          /\ outcome' = [kind |-> "raised", exc |-> ExcCreate]
          /\ UNCHANGED <<driver, errors>>
    /\ UNCHANGED <<inputVars, job_status, appVars, call, form_map, total_rows, index, rowVars,
                   row_result, history, attempted, countVars, exc, ret>>

\* self.driver.get(self.form_url) and the best-effort dismissal of consent
\* dialogs, whose failures are swallowed and change nothing.
LoadForm ==
    /\ pc = "load"
    /\ \/ /\ pc' = "map"
          /\ UNCHANGED exc
       \/ /\ pc' = "finally"
          /\ exc' = ExcDriver
    /\ UNCHANGED <<inputVars, job_status, appVars, call, driver, form_map, errors, total_rows, index,
                   rowVars, row_result, history, attempted, countVars, ret, outcome>>

\* The check left out.
check_form_map_Skipped(fmap) == NoExc

\* if not self.form_map: raise Exception("No form fields detected! ...")
check_form_map(fmap) == IF DOMAIN fmap = {} THEN ExcNoFields ELSE NoExc

\* self.form_map = self._extract_form_mapping(), the check that it is not
\* empty, and success_count = 0; fail_count = 0.
ExtractMapping ==
    /\ pc = "map"
    /\ \/ \E raised \in SUBSET (1..Len(page.divs)) :
             LET r == extract_form_mapping(page, raised) IN
             \/ /\ r.exc # NoExc
                /\ exc' = r.exc
                /\ pc' = "finally"
                /\ UNCHANGED form_map
             \/ /\ r.exc = NoExc
                /\ form_map' = r.mapping
                /\ exc' = check_form_map(r.mapping)
                /\ pc' = IF check_form_map(r.mapping) = NoExc THEN "loop"
                         ELSE "finally"
       \/ /\ exc' = ExcDriver        \* a driver call outside the question
          /\ pc' = "finally"         \* loop raises, the wait for the
          /\ UNCHANGED form_map      \* body included
    /\ UNCHANGED <<inputVars, job_status, appVars, call, driver, errors, total_rows, index, rowVars,
                   row_result, history, attempted, countVars, ret, outcome>>

\* What run does with the outcome r of a step of _submit_row; next is
\* where _submit_row goes on when the step did not end it.
AfterRowStep(r, next) ==
    /\ errors' = r.errors
    /\ exc' = r.escaped
    /\ row_result' = IF r.done THEN r.ok ELSE row_result
    /\ pc' = IF r.escaped # NoExc THEN "finally"
             ELSE IF r.done THEN "count" ELSE next

\* for index, row in df.iterrows(): self._submit_row(row, index) is entered.
SubmitRowOpen ==
    /\ pc = "loop"
    /\ index < total_rows
    /\ \E o \in DriverOutcomes :
          /\ o = "ok" => ListItems(page) # << >>
          /\ AfterRowStep(submit_row_open(errors, index, o), "fill")
          /\ row_log' = [NoRowLog EXCEPT !.navigated = (o = "ok"),
                                         !.driver_failed = (o # "ok"),
                                         !.errors_before = Len(errors)]
          /\ history' = IF o = "ok" THEN history
                        ELSE Append(history, [failed |-> << >>,
                                              confirmed |-> FALSE])
    /\ attempted' = Append(attempted, index)
    /\ col' = 1
    /\ filled_count' = 0
    /\ failed_fields' = << >>
    /\ UNCHANGED <<inputVars, job_status, appVars, call, driver, form_map, total_rows, index, countVars,
                   ret, outcome>>

\* One iteration of  for col, value in row.items().
SubmitRowFill ==
    /\ pc = "fill"
    /\ col <= Len(df[index + 1])
    /\ LET column == df[index + 1][col][1]
           value  == df[index + 1][col][2]
       IN \E script \in FillScripts :
          LET key == normalize(py_str(column))
              f == IF column_is_mapped(form_map, column)
                   THEN fill_field_with_retry(page, form_map[key], value, script)
                   ELSE [ok |-> FALSE, attempts |-> 0, raised |-> 0]
              r == submit_row_fill(form_map, column, f.ok, filled_count,
                                   failed_fields)
          IN /\ filled_count' = r.filled_count
             /\ failed_fields' = r.failed_fields
             /\ row_log' = IF r.called
                           THEN [row_log EXCEPT
                                    !.filled = Append(@, column),
                                    !.fill_raised = @ \/ (f.raised > 0)]
                           ELSE [row_log EXCEPT !.skipped = Append(@, column)]
    /\ col' = col + 1
    /\ UNCHANGED <<inputVars, job_status, appVars, call, pc, driver, form_map, errors, total_rows, index,
                   row_result, history, attempted, countVars, exc, ret, outcome>>

\* if failed_fields: ..., once every column was visited.
SubmitRowRecord ==
    /\ pc = "fill"
    /\ col > Len(df[index + 1])
    /\ LET r == submit_row_record(errors, index, failed_fields) IN
          /\ AfterRowStep(r, "submit")
          /\ row_log' = [row_log EXCEPT !.join_raised = r.done]
          /\ history' = IF r.done
                        THEN Append(history, [failed |-> failed_fields,
                                              confirmed |-> FALSE])
                        ELSE history
    /\ UNCHANGED <<inputVars, job_status, appVars, call, driver, form_map, total_rows, index, col,
                   filled_count, failed_fields, attempted, countVars, ret,
                   outcome>>

\* The rest of _submit_row: the submit sequence.
SubmitRowSubmit ==
    /\ pc = "submit"
    /\ \E o \in SubmitOutcomes :
          /\ o.find = "ok" => page.submit
          /\ AfterRowStep(submit_row_submit(errors, index, failed_fields, o),
                          "submit")
          /\ row_log' = SubmitLog(row_log, o)
          /\ history' = Append(history,
                            [failed |-> failed_fields,
                             confirmed |-> SubmitLog(row_log, o).confirmed])
    /\ UNCHANGED <<inputVars, job_status, appVars, call, driver, form_map, total_rows, index, col,
                   filled_count, failed_fields, attempted, countVars, ret,
                   outcome>>

\* fail_count += 1 outside the else branch.
count_row_AlwaysFail(success, fail, ok) ==
    IF ok THEN [success_count |-> success + 1, fail_count |-> fail + 1]
    ELSE [success_count |-> success, fail_count |-> fail + 1]

\* if self._submit_row(row, index): success_count += 1 else: fail_count += 1
count_row(success, fail, ok) ==
    IF ok THEN [success_count |-> success + 1, fail_count |-> fail]
    ELSE [success_count |-> success, fail_count |-> fail + 1]

\* The callback given the 0-based index.
progress_calls_ZeroBased(calls, supplied, i, n, success, fail) ==
    IF supplied
    THEN Append(calls, [current_row |-> i, total_rows |-> n,
                        success |-> success, fail |-> fail,
                        message |-> ProgressMsg(i, n)])
    ELSE calls

\* if progress_callback: progress_callback(index + 1, total_rows, ...)
progress_calls(calls, supplied, i, n, success, fail) ==
    IF supplied
    THEN Append(calls, [current_row |-> i + 1, total_rows |-> n,
                        success |-> success, fail |-> fail,
                        message |-> ProgressMsg(i, n)])
    ELSE calls

\* The row is counted after _submit_row returned (lines 555-560).
CountRow ==
    /\ pc = "count"
    /\ LET c == count_row(success_count, fail_count, row_result) IN
          /\ success_count' = c.success_count
          /\ fail_count' = c.fail_count
    /\ pc' = "progress"
    /\ UNCHANGED <<inputVars, job_status, appVars, call, driver, form_map, errors, total_rows,
                   index, rowVars, row_result, history, attempted, callbacks,
                   exc, ret, outcome>>

\* After the sleep: if progress_callback: progress_callback(...), and the
\* loop goes to the next row (lines 563-567).
ProgressCallback ==
    /\ pc = "progress"
    /\ callbacks' = progress_calls(callbacks, has_callback, index,
                        total_rows, success_count, fail_count)
    /\ job_status' = call_progress_callback(job_status, has_callback,
                        task.job_id, index, total_rows,
                        success_count, fail_count)
    /\ index' = index + 1
    /\ pc' = "loop"
    /\ UNCHANGED <<inputVars, appVars, call, driver, form_map, errors, total_rows, rowVars,
                   row_result, history, attempted, success_count, fail_count,
                   exc, ret, outcome>>

\* return {"total_rows": ..., "success_count": ..., "fail_count": ..., "errors": ...}
run_result(n, success, fail, errs) ==
    [total_rows |-> n, success_count |-> success, fail_count |-> fail,
     errors |-> errs]

ReturnResult ==
    /\ pc = "loop"
    /\ index >= total_rows
    /\ ret' = run_result(total_rows, success_count, fail_count, errors)
    /\ pc' = "finally"
    /\ UNCHANGED <<inputVars, job_status, appVars, call, driver, form_map, errors, total_rows, index,
                   rowVars, row_result, history, attempted, countVars, exc, outcome>>

\* quit() at the end of the try block instead of in a finally clause.
release_driver_OnSuccessOnly(drv, e) ==
    IF drv # "none" /\ e = NoExc THEN "quit" ELSE drv

\* finally: if self.driver: self.driver.quit()   (e: the pending exception)
release_driver(drv, e) == IF drv # "none" THEN "quit" ELSE drv

Finally ==
    /\ pc = "finally"
    /\ driver' = release_driver(driver, exc)
    /\ pc' = "exit"
    /\ UNCHANGED <<inputVars, job_status, appVars, call, form_map, errors, total_rows, index, rowVars,
                   row_result, history, attempted, countVars, exc, ret, outcome>>

\* run returns to its caller, or the exception re-raised by its except
\* clause reaches the caller.
Exit ==
    /\ pc = "exit"
    /\ outcome' = IF exc # NoExc THEN [kind |-> "raised", exc |-> exc]
                  ELSE [kind |-> "returned", value |-> ret]
    /\ pc' = "done"
    /\ UNCHANGED <<inputVars, job_status, appVars, call, driver, form_map, errors, total_rows, index,
                   rowVars, row_result, history, attempted, countVars, exc, ret>>

Next ==
    \/ ReadExcel
    \/ CreateDriver
    \/ LoadForm
    \/ ExtractMapping
    \/ SubmitRowOpen
    \/ SubmitRowFill
    \/ SubmitRowRecord
    \/ SubmitRowSubmit
    \/ CountRow
    \/ ProgressCallback
    \/ ReturnResult
    \/ Finally
    \/ Exit

Spec == Init /\ [][Next]_vars

\* run on its single thread, with a driver whose every call and bounded
\* wait returns, raises or times out: a step that can be taken is taken.
\* That is weak fairness of each step.  For ExtractMapping and
\* SubmitRowFill it is written out, with the guard of the action (which
\* is all that enables it) where WF_vars has ENABLED.
SpecTerminates ==
    /\ Init /\ [][Next]_vars
    /\ WF_vars(ReadExcel) /\ WF_vars(CreateDriver) /\ WF_vars(LoadForm)
    /\ WF_vars(SubmitRowOpen) /\ WF_vars(SubmitRowRecord)
    /\ WF_vars(SubmitRowSubmit)
    /\ WF_vars(CountRow) /\ WF_vars(ProgressCallback)
    /\ WF_vars(ReturnResult)
    /\ WF_vars(Finally) /\ WF_vars(Exit)
    /\ (<>[](pc = "map") => []<><<ExtractMapping>>_vars)
    /\ (<>[](pc = "fill" /\ col <= Len(df[index + 1]))
           => []<><<SubmitRowFill>>_vars)

-----------------------------------------------------------------------------
(* app.py: POST /submit-form stores a job and queues run_submission_task,  *)
(* which calls run from a worker thread; GET /status/{job_id} is answered  *)
(* on the event loop at any moment in between.                             *)

\* The ids a client polls: those of jobs and one no job has.
PollIds == JobIds \cup {2}

\* run's variables other than pc.
runLocals == <<df, page, has_callback, driver, form_map, errors, total_rows,
               index, col, filled_count, failed_fields, row_log, row_result,
               history, attempted, success_count, fail_count, callbacks, exc,
               ret, outcome>>

\* The forms jobs are submitted for: one that can be filled and submitted,
\* a restricted one and one without questions.
JobPages ==
    { PageForm({1}),
      [PageForm({1}) EXCEPT !.denied = TRUE],
      [PageForm({1}) EXCEPT !.divs = << >>] }

\* The sheets uploaded with them: n rows of one column, the name.
JobDataFrame(n) == [i \in 1..n |-> <<RowAt(i)[1]>>]

\* A sheet and a page are uploaded; run has not been called.
InitJob ==
    /\ pc = "idle"
    /\ df \in {JobDataFrame(n) : n \in 0..MaxRows}
    /\ page \in JobPages
    /\ has_callback = TRUE
    /\ RunNotStarted
    /\ AppNotStarted
    /\ call = NoCall

\* submit_form, for a request that passes the two validations: the record
\* is stored, then the task is queued.
SubmitForm ==
    /\ task.pc = "none"
    /\ \E j \in JobIds \ DOMAIN job_status :
          /\ job_status' = (j :> new_job(j)) @@ job_status
          /\ task' = [pc |-> "queued", job_id |-> j]
    /\ UNCHANGED <<runVars, snapshot, call>>

\* run_submission_task up to the call of submitter.run(progress_callback).
TaskStart ==
    /\ task.pc = "queued"
    /\ job_status' = task_started(job_status, task.job_id)
    /\ task' = [task EXCEPT !.pc = "run"]
    /\ pc' = "start"
    /\ UNCHANGED <<runLocals, snapshot, call>>

\* run returned: the update of lines 62-69.
TaskCompleted ==
    /\ task.pc = "run"
    /\ pc = "done"
    /\ outcome.kind = "returned"
    /\ job_status' = task_completed(job_status, task.job_id, outcome.value)
    /\ task' = [task EXCEPT !.pc = "cleanup"]
    /\ UNCHANGED <<runVars, snapshot, call>>

\* run raised: the except clause of lines 71-75.
TaskFailed ==
    /\ task.pc = "run"
    /\ pc = "done"
    /\ outcome.kind = "raised"
    /\ job_status' = task_failed(job_status, task.job_id, outcome.exc)
    /\ task' = [task EXCEPT !.pc = "cleanup"]
    /\ UNCHANGED <<runVars, snapshot, call>>

\* finally: the uploaded file is removed; the record is left alone.
TaskFinally ==
    /\ task.pc = "cleanup"
    /\ task' = [task EXCEPT !.pc = "done"]
    /\ UNCHANGED <<runVars, job_status, snapshot, call>>

\* GET /status/{job_id}
Poll ==
    /\ \E j \in PollIds : snapshot' = get_job_status(job_status, j)
    /\ UNCHANGED <<runVars, job_status, task, call>>

NextJob ==
    \/ SubmitForm
    \/ TaskStart
    \/ ReadExcel
    \/ CreateDriver
    \/ LoadForm
    \/ ExtractMapping
    \/ SubmitRowOpen
    \/ SubmitRowFill
    \/ SubmitRowRecord
    \/ SubmitRowSubmit
    \/ CountRow
    \/ ProgressCallback
    \/ ReturnResult
    \/ Finally
    \/ Exit
    \/ TaskCompleted
    \/ TaskFailed
    \/ TaskFinally
    \/ Poll

SpecJob == InitJob /\ [][NextJob]_vars

-----------------------------------------------------------------------------
(* Functions taken alone.  While one of them is called nothing else runs:  *)
(* run and the application stay as they are before their first step.       *)

NothingRuns ==
    /\ pc = "idle"
    /\ df = DataFrame(0)
    /\ page = PageForm({1})
    /\ has_callback = FALSE
    /\ RunNotStarted
    /\ AppNotStarted

-----------------------------------------------------------------------------
(* normalize, applied to a text and then to its own result.                *)

\* The longest text drawn from the alphabet.
MaxTextLen == 4

\* A letter of each case, the two characters normalize removes, three
\* kinds of whitespace ('\x0b' is one), and the two capitals whose lower
\* case is not one fixed character ('\u0130', '\u03a3').
TextAlphabet ==
    {"A", "b", "*", " ", "\n", "\t", "\\x0b", "\\u0130", "\\u03a3"}

\* "  Full\n NAME  *\n" and " Date  of\tBirth * ": labels as the form
\* shows them.
LblFullName ==
    <<" "," ","F","u","l","l","\n"," ","N","A","M","E"," "," ","*","\n">>
LblDateOfBirth ==
    <<" ","D","a","t","e"," "," ","o","f","\t","B","i","r","t","h"," ","*"," ">>

\* "full name"
TxtFullName == <<"f","u","l","l"," ","n","a","m","e">>

NormalizeArgs ==
    {StrVal(t) : t \in UNION {[1..k -> TextAlphabet] : k \in 0..MaxTextLen}}
    \cup {StrVal(LblFullName), StrVal(LblDateOfBirth)}
    \cup {NumVal(0), NumVal(2024), FloatVal(33100), FloatExp(1, 16),
          FloatExp(12345, 13), NanVal}

InitNormalize ==
    /\ NothingRuns
    /\ call \in {[fn |-> "normalize", arg |-> a, step |-> "called",
                  out |-> << >>, again |-> << >>] : a \in NormalizeArgs}

\* normalize(x)
CallNormalize ==
    /\ call.fn = "normalize"
    /\ call.step = "called"
    /\ call' = [call EXCEPT !.out = normalize(py_str(call.arg)),
                            !.step = "returned"]
    /\ UNCHANGED <<runVars, job_status, appVars>>

\* normalize(normalize(x))
CallNormalizeAgain ==
    /\ call.fn = "normalize"
    /\ call.step = "returned"
    /\ call' = [call EXCEPT !.again = normalize(call.out),
                            !.step = "again"]
    /\ UNCHANGED <<runVars, job_status, appVars>>

NextNormalize ==
    \/ CallNormalize
    \/ CallNormalizeAgain

SpecNormalize == InitNormalize /\ [][NextNormalize]_vars

-----------------------------------------------------------------------------
(* _parse_date_value, applied to a value of each kind a cell can hold.     *)

\* The six patterns a date text is written in: DD-MM-YYYY, YYYY-MM-DD,
\* MM/DD/YYYY, DD/MM/YYYY, DD-MM-YY, YYYY/MM/DD.
WrittenPatterns ==
    << [sep |-> "-", fields |-> <<"d", "m", "Y">>],
       [sep |-> "-", fields |-> <<"Y", "m", "d">>],
       [sep |-> "/", fields |-> <<"m", "d", "Y">>],
       [sep |-> "/", fields |-> <<"d", "m", "Y">>],
       [sep |-> "-", fields |-> <<"d", "m", "y">>],
       [sep |-> "/", fields |-> <<"Y", "m", "d">>] >>

\* The date (d, m, y) written in a pattern, zero-padded.
WriteDate(pattern, d, m, y) ==
    LET field(f) == CASE f = "d" -> zfill(StrNat(d), 2)
                      [] f = "m" -> zfill(StrNat(m), 2)
                      [] f = "Y" -> zfill(StrNat(y), 4)
                      [] f = "y" -> zfill(StrNat(y % 100), 2)
    IN Join(<<pattern.sep>>, [i \in 1..3 |-> field(pattern.fields[i])])

\* The years dates are written in; a two-digit year stands for 1969..2068.
WrittenYears == {1969, 1990, 2000, 2024, 2068}

\* Every calendar date of those years.
WrittenDates ==
    {w \in [day : 1..31, month : 1..12, year : WrittenYears] :
        ValidDate(w.day, w.month, w.year)}

NotWritten == [fmt |-> 0, day |-> 0, month |-> 0, year |-> 0]

\* Texts that are no date in any pattern, and one with blanks around it.
TxtNotADate == <<"n","o","t","-","a","-","d","a","t","e">>
TxtDayMonthOnly == <<"1","5","-","0","8">>
TxtDotted == <<"1","5",".","0","8",".","1","9","9","0">>
TxtFeb31 == <<"3","1","-","0","2","-","2","0","2","0">>
TxtMonth13 == <<"2","0","2","0","-","1","3","-","0","1">>
TxtPadded == <<" ","1","5","-","0","8","-","1","9","9","0","\n">>

\* '\x0b15-08-1990\xa0' and '1\u0665-08-1990': a date between a vertical
\* tab and a no-break space, and one whose day ends in an ARABIC-INDIC five.
TxtVtPadded == <<"\\x0b","1","5","-","0","8","-","1","9","9","0","\\xa0">>
TxtArabicIndicDay == <<"1","\\u0665","-","0","8","-","1","9","9","0">>

UnparseableTexts ==
    {TxtNotADate, TxtDayMonthOnly, TxtDotted, TxtFeb31, TxtMonth13, << >>}

\* Serial numbers: 33100 is 1990-08-15; the last two fall outside the
\* range of pd.Timestamp.
SerialNumbers == {0, 1, 60, 33100, 45000, 132000, 2958465, -100000}

OtherDateValues ==
    {StrVal(t) : t \in UnparseableTexts
                        \cup {TxtPadded, TxtVtPadded, TxtArabicIndicDay}}
    \cup {NumVal(n) : n \in SerialNumbers}
    \cup {FloatVal(33100), FloatExp(331, 2), FloatExp(1, 16), NanVal,
          NatVal, OtherVal, TsVal(15, 8, 1990),
          TsVal(29, 2, 2024), DateVal(29, 2, 2024)}

ParseDateCalls ==
    {[fn |-> "parse_date_value", step |-> "called", out |-> NoDate,
      value |-> StrVal(WriteDate(WrittenPatterns[k], w.day, w.month, w.year)),
      written |-> [fmt |-> k, day |-> w.day, month |-> w.month,
                   year |-> w.year]] :
        k \in 1..Len(WrittenPatterns), w \in WrittenDates}
    \cup {[fn |-> "parse_date_value", step |-> "called", out |-> NoDate,
           value |-> v, written |-> NotWritten] : v \in OtherDateValues}

InitParseDate ==
    /\ NothingRuns
    /\ call \in ParseDateCalls

\* day, month, year = self._parse_date_value(value)
CallParseDate ==
    /\ call.fn = "parse_date_value"
    /\ call.step = "called"
    /\ call' = [call EXCEPT !.out = parse_date_value(call.value),
                            !.step = "returned"]
    /\ UNCHANGED <<runVars, job_status, appVars>>

NextParseDate == CallParseDate

SpecParseDate == InitParseDate /\ [][NextParseDate]_vars

-----------------------------------------------------------------------------
(* _fill_field_with_retry and _fill_date_field, called for one question    *)
(* container, one value and one course of the driver.                      *)

HintInput(type, hint) == [type |-> type, hint |-> hint]

TextArea == [type |-> TextAreaTag, hint |-> << >>]
Checkbox == [type |-> "checkbox", hint |-> << >>]
HiddenInput == [type |-> "hidden", hint |-> << >>]

\* aria-label "Day of the month", "Month", "Year", lower-cased.
DayInput ==
    HintInput("text", <<"d","a","y"," ","o","f"," ","t","h","e"," ","m","o",
                        "n","t","h">>)
MonthInput == HintInput("text", TxtMonth)
YearInput == HintInput("text", TxtYear)

\* Containers of every shape the date filler tells apart: no input, one
\* input of each type, a hidden input before a text input, three labelled
\* inputs (alone, after a date-typed
\* input, as tel inputs with placeholders), two of them, and three text
\* inputs of which none or only two are labelled.
FillContainers ==
    { << >>,
      <<TextInput>>, <<EmailInput>>, <<TextArea>>, <<DateInput>>,
      <<Checkbox>>, <<HiddenInput, TextInput>>,
      <<DayInput, MonthInput, YearInput>>,
      <<DateInput, DayInput, MonthInput, YearInput>>,
      <<HintInput("tel", TxtDD), HintInput("tel", TxtMM),
        HintInput("tel", TxtYYYY)>>,
      <<DayInput, MonthInput>>,
      <<TextInput, TextInput, TextInput>>,
      <<DayInput, MonthInput, TextInput>> }

\* "15-08-1990" and "Asha"
TxtDate15Aug1990 == <<"1","5","-","0","8","-","1","9","9","0">>
TxtAsha == <<"A","s","h","a">>

\* Cell values: texts and numbers, and the values only a date field is
\* given here.
FillValues ==
    {StrVal(TxtDate15Aug1990), StrVal(TxtNotADate), StrVal(TxtAsha),
     NumVal(33100), FloatVal(33100), FloatExp(1, 16),
     DateVal(29, 2, 2024), NanVal}
DateOnlyValues == {TsVal(5, 8, 1990), NatVal, OtherVal}

\* The form page with the container as its only question.
UnitPage(inputs) ==
    [body |-> TRUE, denied |-> FALSE, submit |-> TRUE,
     divs |-> <<Question({1}, LblDob, inputs)>>]

\* The field info _extract_form_mapping stores for that question.
UnitFieldInfo(inputs) ==
    extract_form_mapping(UnitPage(inputs), {}).mapping[normalize(LblDob)]

NoFill == [ok |-> FALSE, attempts |-> 0, raised |-> 0,
           strategy |-> "none", typed |-> << >>]

\* _fill_field_with_retry(field_info, value) for the field info of every
\* container that was mapped, and _fill_date_field(xpath, value, 3) for
\* the xpath of every container.
FillCalls ==
    {[fn |-> "fill_field_with_retry", step |-> "called", out |-> NoFill,
      inputs |-> c, field_info |-> UnitFieldInfo(c), value |-> v,
      script |-> sc] :
        c \in {x \in FillContainers : x # << >>},
        v \in FillValues, sc \in FillScripts}
    \cup {[fn |-> "fill_date_field", step |-> "called", out |-> NoFill,
           inputs |-> c,
           field_info |-> [xpath |-> [listitem |-> 1], type |-> "date",
                           label |-> LblDob, index |-> 1],
           value |-> v, script |-> sc] :
             c \in FillContainers, v \in FillValues \cup DateOnlyValues,
             sc \in FillScripts}

InitFill ==
    /\ NothingRuns
    /\ call \in FillCalls

\* self._fill_field_with_retry(field_info, value)
CallFillField ==
    /\ call.fn = "fill_field_with_retry"
    /\ call.step = "called"
    /\ call' = [call EXCEPT
                  !.out = fill_field_with_retry(UnitPage(call.inputs),
                              call.field_info, call.value, call.script),
                  !.step = "returned"]
    /\ UNCHANGED <<runVars, job_status, appVars>>

\* self._fill_date_field(xpath, value, max_retries)
CallFillDateField ==
    /\ call.fn = "fill_date_field"
    /\ call.step = "called"
    /\ call' = [call EXCEPT
                  !.out = fill_date_field(UnitPage(call.inputs),
                              call.field_info.xpath, call.value, max_retries,
                              call.script),
                  !.step = "returned"]
    /\ UNCHANGED <<runVars, job_status, appVars>>

NextFill ==
    \/ CallFillField
    \/ CallFillDateField

SpecFill == InitFill /\ [][NextFill]_vars

-----------------------------------------------------------------------------
(* _extract_form_mapping taken alone, on pages of up to MaxContainers      *)
(* divs, followed by the lookup of one stored xpath on the same page.      *)

\* The most divs a page of these calls holds.
MaxContainers == 3

\* '\x0bname': a heading with the same normalized text as "Name *".
LblNamePadded == <<"\\x0b","n","a","m","e">>

\* What a div may be matched by: role='listitem', the two class markers
\* with data-params, data-params alone, or no selector at all.
ContainerMarks == {{1}, {2, 4}, {3}, {}}

\* A div without a role='heading' element.
Headless(marks, inputs) ==
    [marks |-> marks, hasHeading |-> FALSE, heading |-> << >>,
     inputs |-> inputs]

\* The divs of these pages: a text question, a question of the same
\* normalized label with another input, a choice question and a div with
\* an input but no heading, under each of the markers.
MappingDivs ==
    UNION {{Question(m, LblName, <<TextInput>>),
            Question(m, LblNamePadded, <<EmailInput>>),
            Question(m, LblChoice, << >>),
            Headless(m, <<TextInput>>)} : m \in ContainerMarks}

MappingPage(divs) ==
    [body |-> TRUE, denied |-> FALSE, submit |-> TRUE, divs |-> divs]

\* Every page of up to MaxContainers divs, and two pages the discovery is
\* never reached on.
MappingPages ==
    {MappingPage(d) : d \in UNION {[1..n -> MappingDivs] : n \in 0..MaxContainers}}
    \cup {[MappingPage(<<Question({1}, LblName, <<TextInput>>)>>)
              EXCEPT !.body = FALSE],
          [MappingPage(<<Question({1}, LblName, <<TextInput>>)>>)
              EXCEPT !.denied = TRUE],
          [MappingPage(<< >>) EXCEPT !.denied = TRUE]}

\* The questions a driver call of the question loop raises on: none, or
\* one of them.
RaisedSets == {{}} \cup {{i} : i \in 1..MaxContainers}

\* The selectors the loop of lines 137-149 tries from selectors[k] on, in
\* order: it breaks at the first one with a match.
RECURSIVE selectors_tried(_, _)
selectors_tried(pg, k) ==
    IF k > NumSelectors THEN << >>
    ELSE IF FindBySelector(pg, k) # << >> THEN <<k>>
    ELSE <<k>> \o selectors_tried(pg, k + 1)

\* The elements the stored xpath selects on the page:
\* (//div[@role='listitem'])[n]//input | (//div[@role='listitem'])[n]//textarea
resolve_xpath(pg, xpath) == InputsOfListItem(pg, xpath_index(xpath))

NoMapping == [exc |-> NoExc, mapping |-> EmptyMap, questions |-> << >>,
              tried |-> << >>]

InitMapping ==
    /\ NothingRuns
    /\ call \in {[fn |-> "extract_form_mapping", step |-> "called",
                  page |-> p, raised |-> r, out |-> NoMapping,
                  key |-> << >>, found |-> << >>] :
                 p \in MappingPages, r \in RaisedSets}

\* self._extract_form_mapping(): what it raises or returns, with the
\* questions its selector loop ended with and the selectors it tried.
CallExtractMapping ==
    /\ call.fn = "extract_form_mapping"
    /\ call.step = "called"
    /\ LET r == extract_form_mapping(call.page, call.raised)
           reached == call.page.body /\ ~call.page.denied
       IN call' = [call EXCEPT
                     !.out = [exc |-> r.exc, mapping |-> r.mapping,
                              questions |-> IF reached
                                            THEN find_questions(call.page, 1)
                                            ELSE << >>,
                              tried |-> IF reached
                                        THEN selectors_tried(call.page, 1)
                                        ELSE << >>],
                     !.step = "returned"]
    /\ UNCHANGED <<runVars, job_status, appVars>>

\* The xpath of one entry of the mapping looked up on the page, as
\* _fill_field_with_retry and _fill_date_field do.
CallResolve ==
    /\ call.fn = "extract_form_mapping"
    /\ call.step = "returned"
    /\ call.out.exc = NoExc
    /\ \E key \in DOMAIN call.out.mapping :
          call' = [call EXCEPT
                     !.key = key,
                     !.found = resolve_xpath(call.page,
                                             call.out.mapping[key].xpath),
                     !.step = "resolved"]
    /\ UNCHANGED <<runVars, job_status, appVars>>

NextMapping ==
    \/ CallExtractMapping
    \/ CallResolve

SpecMapping == InitMapping /\ [][NextMapping]_vars

-----------------------------------------------------------------------------
(* Properties.                                                             *)

Last(s) == s[Len(s)]
InSeq(x, s) == \E k \in 1..Len(s) : s[k] = x

\* The messages the current _submit_row call appended to self.errors.
NewErrors == SubSeq(errors, row_log.errors_before + 1, Len(errors))

Returned == outcome.kind = "returned"
Raised   == outcome.kind = "raised"

\* The rows counted so far: the row of the loop is counted once CountRow
\* has run, and index moves on after the callback.
Counted == IF pc = "progress" THEN index + 1 ELSE index

\* Where run stands inside the body of the row loop.
InRow == pc \in {"fill", "submit", "count", "progress"}

\* The confirmation was observed for every row of the sheet.
AllRowsConfirmed ==
    /\ Len(history) = Len(df)
    /\ \A k \in 1..Len(history) : history[k].confirmed

\* "Row k: Failed fields - a, b" for the rows 1..n of the history in which a
\* field failed to fill, in row order.
RECURSIVE FailedFieldMessages(_)
FailedFieldMessages(n) ==
    IF n = 0 THEN << >>
    ELSE IF history[n].failed = << >> THEN FailedFieldMessages(n - 1)
    ELSE Append(FailedFieldMessages(n - 1),
                TxtRow \o StrNat(n) \o TxtFailedFields
                \o Join(TxtCommaSpace, LabelTexts(history[n].failed)))

TxtSubmitLower == <<"s","u","b","m","i","t">>
TxtSubmitWord  == <<"S","u","b","m","i","t">>

(* C1: whenever run has returned or raised to its caller and a browser     *)
(* session was created, the session has been quit.                         *)
C1_SessionReleased ==
    (outcome.kind # "none" /\ driver # "none") => driver = "quit"

C1_Witness == Raised /\ outcome.exc = ExcDenied /\ driver = "quit"

(* C2, as claimed: a run in which every row's submission is confirmed      *)
(* returns N, N, 0 and an empty errors list, whatever happened while       *)
(* filling the fields.                                                     *)
C2_Original ==
    (Returned /\ AllRowsConfirmed) =>
        outcome.value = [total_rows |-> Len(df), success_count |-> Len(df),
                         fail_count |-> 0, errors |-> << >>]

(* C2, amended: a run in which every row's submission is confirmed returns *)
(* totalRows = N, successCount = N and failCount = 0, and its errors list  *)
(* holds exactly one "Row i: Failed fields - ..." message for each row in  *)
(* which a mapped field failed to fill, in row order (so it is empty only  *)
(* when no field failed to fill).                                          *)
C2_AllConfirmedResult ==
    (Returned /\ AllRowsConfirmed) =>
        outcome.value = [total_rows |-> Len(df), success_count |-> Len(df),
                         fail_count |-> 0,
                         errors |-> FailedFieldMessages(Len(df))]

C2_Witness ==
    /\ Returned /\ AllRowsConfirmed
    /\ Len(df) = 2
    /\ outcome.value.errors # << >>

(* C3: every processed row is counted exactly once: success_count +        *)
(* fail_count is the number of rows processed, at every progress callback  *)
(* it equals current_row, and in the returned result it equals total_rows. *)
C3_EveryRowCountedOnce ==
    /\ success_count + fail_count = Counted
    /\ \A k \in 1..Len(callbacks) :
          callbacks[k].success + callbacks[k].fail = callbacks[k].current_row
    /\ Returned =>
          /\ outcome.value.success_count + outcome.value.fail_count
                = outcome.value.total_rows
          /\ outcome.value.total_rows = Len(df)

C3_Witness ==
    /\ Returned /\ has_callback
    /\ Len(callbacks) = 2
    /\ outcome.value.success_count = 1
    /\ outcome.value.fail_count = 1

(* C4: a row is counted as success only if its submit control was clicked  *)
(* and the confirmation was then observed; a row whose submit control was  *)
(* clicked but whose confirmation was not observed returns False, is       *)
(* counted as failed, and has an error message of its own appended.        *)
C4_SuccessOnlyIfConfirmed ==
    /\ success_count = Cardinality({k \in 1..Counted : history[k].confirmed})
    /\ pc = "count" =>
          /\ row_result => (row_log.clicked /\ row_log.confirmed)
          /\ (row_log.clicked /\ ~row_log.confirmed) =>
                /\ ~row_result
                /\ NewErrors # << >>
                /\ StartsWith(Last(errors), TxtRow \o StrNat(index + 1) \o TxtColon)

C4_Witness ==
    /\ pc = "count"
    /\ row_log.clicked /\ ~row_log.confirmed
    /\ success_count = 1

(* C5, as claimed: when the Field Filler fails for a mapped field of a     *)
(* row, an error message naming the row is appended and the row is marked  *)
(* as failed.                                                              *)
C5_Original ==
    (pc = "count" /\ failed_fields # << >>) =>
        /\ \E k \in 1..Len(NewErrors) :
              StartsWith(NewErrors[k], TxtRow \o StrNat(index + 1) \o TxtColon)
        /\ ~row_result

(* C5, amended: when the Field Filler fails for a mapped field of a row,   *)
(* an error message naming the row is appended and the run continues with  *)
(* the next row.  When the labels of the failed columns are all texts the  *)
(* message names the failed fields, and the row is counted as failed       *)
(* unless its submit control is then clicked and the confirmation          *)
(* observed, in which case it is counted as a success.  When one of them   *)
(* is a number the message is that of the TypeError the join of the labels *)
(* raises, the only message of the row, and the row is counted as failed.  *)
C5_FailedFieldRecorded ==
    /\ (pc = "count" /\ failed_fields # << >>) =>
          /\ row_log.join_raised <=> join_error(failed_fields) # None
          /\ row_log.join_raised =>
                /\ NewErrors = <<RowMsg(index, TxtColon
                                              \o TypeErrorText(failed_fields))>>
                /\ ~row_result
          /\ ~row_log.join_raised =>
                /\ InSeq(TxtRow \o StrNat(index + 1) \o TxtFailedFields
                         \o Join(TxtCommaSpace, LabelTexts(failed_fields)),
                         NewErrors)
                /\ row_result <=> row_log.confirmed
          /\ exc = NoExc
    /\ fail_count = Cardinality({k \in 1..Counted : ~history[k].confirmed})

C5_Witness ==
    /\ pc = "count"
    /\ failed_fields # << >>
    /\ row_result

\* The row indexes 0 .. n-1 in their order.
RowIndexes(n) == [k \in 1..n |-> k - 1]

(* C6, as claimed: no driver failure raised while a row is processed       *)
(* (navigation, container wait, fill, submit lookup, click, confirmation   *)
(* wait) escapes _submit_row: the row returns False with an error message  *)
(* appended, and every row of the sheet is still attempted.                *)
C6_Original ==
    /\ attempted # << >> => exc = NoExc
    /\ (pc = "count" /\ (row_log.driver_failed \/ row_log.fill_raised)) =>
          (~row_result /\ NewErrors # << >>)
    /\ Returned => attempted = RowIndexes(Len(df))

(* C6, amended: no driver failure raised while a row is processed escapes  *)
(* _submit_row, and every row of the sheet is still attempted; a failure   *)
(* of the navigation, the container wait, the submit lookup, the click or  *)
(* the confirmation wait makes the row return False with an error message  *)
(* appended, while a failure inside a fill attempt is caught by the Field  *)
(* Filler's retry loop and by itself neither makes the row return False    *)
(* nor appends a message.                                                  *)
C6_NoExceptionEscapesRow ==
    /\ attempted # << >> => (exc = NoExc /\ ~Raised)
    /\ (pc = "count" /\ row_log.driver_failed) =>
          /\ ~row_result
          /\ NewErrors # << >>
          /\ StartsWith(Last(errors), TxtRow \o StrNat(index + 1) \o TxtColon)
    /\ (pc = "count" /\ ~row_log.driver_failed /\ ~row_log.join_raised) =>
          /\ row_result
          /\ NewErrors = record_failed_fields(<< >>, index, failed_fields)
    /\ Returned => attempted = RowIndexes(Len(df))

C6_Witness ==
    /\ Returned
    /\ Len(df) = 2
    /\ outcome.value.fail_count = 2
    /\ row_log.driver_failed

(* C7: rows are processed in their original order, one at a time; a        *)
(* supplied progress callback is invoked exactly once after each row, with *)
(* current_row = 1, 2, ..., N in that order and with success and fail      *)
(* counts that never decrease from one invocation to the next.             *)
C7_RowsInOrderOneCallbackEach ==
    /\ attempted = RowIndexes(Len(attempted))
    /\ Len(attempted) = IF InRow THEN index + 1 ELSE index
    /\ Len(callbacks) = IF has_callback THEN index ELSE 0
    /\ \A k \in 1..Len(callbacks) :
          /\ callbacks[k].current_row = k
          /\ callbacks[k].total_rows = Len(df)
    /\ \A k \in 1..(Len(callbacks) - 1) :
          /\ callbacks[k].success <= callbacks[k + 1].success
          /\ callbacks[k].fail <= callbacks[k + 1].fail
    /\ Returned => index = Len(df)

C7_Witness ==
    /\ Returned /\ has_callback
    /\ Len(callbacks) = 2
    /\ callbacks[1].fail = 1
    /\ callbacks[2].success = 1

\* The containers the mapping step discovers hold no question with both a
\* heading and a primitive input.
ZeroFields(p) ==
    \A k \in 1..NumSelectors :
        (\A j \in 1..(k - 1) : \A d \in 1..Len(p.divs) : j \notin p.divs[d].marks)
        => \A d \in 1..Len(p.divs) :
              k \in p.divs[d].marks
              => (~p.divs[d].hasHeading \/ p.divs[d].inputs = << >>)

(* C8: when the mapping step yields zero fields (no question container, or *)
(* none holding a primitive input), run raises a fatal error before any    *)
(* row is submitted and before any progress callback, and the browser      *)
(* session is released.                                                    *)
C8_EmptyMappingAborts ==
    /\ ZeroFields(page) =>
          /\ attempted = << >>
          /\ callbacks = << >>
          /\ pc # "loop" /\ ~InRow
          /\ ~Returned
          /\ (Raised /\ driver # "none") => driver = "quit"
    /\ (pc = "loop" \/ InRow \/ Returned) => DOMAIN form_map # {}
    /\ (Raised /\ outcome.exc = ExcNoQuestions) => ZeroFields(page)
    /\ (Raised /\ outcome.exc \in {ExcNoQuestions, ExcNoFields}) =>
          /\ DOMAIN form_map = {}
          /\ attempted = << >>
          /\ callbacks = << >>
          /\ driver = "quit"

C8_Witness ==
    /\ Raised
    /\ outcome.exc = ExcNoFields
    /\ Len(df) = 2
    /\ driver = "quit"

(* C9, as claimed: a row whose submit control cannot be located within the *)
(* bounded wait returns False, the error string appended for it contains   *)
(* "submit" and the row's 1-based index, and no confirmation wait is made. *)
C9_Original ==
    (pc = "count" /\ row_log.submit_lookup = "timeout") =>
        /\ ~row_result
        /\ NewErrors # << >>
        /\ Contains(Last(errors), TxtSubmitLower)
        /\ Contains(Last(errors), StrNat(index + 1))
        /\ ~row_log.confirm_waited

(* C9, amended: a row whose submit control cannot be located within the    *)
(* bounded wait returns False, the error string appended for it is         *)
(* "Row <1-based index>: Submit button not found" (it contains "Submit",   *)
(* capitalised, which matches "submit" only without regard to case), and   *)
(* no confirmation wait is made.                                           *)
C9_SubmitNotFound ==
    (pc = "count" /\ row_log.submit_lookup = "timeout") =>
        /\ ~row_result
        /\ NewErrors # << >>
        /\ Contains(Last(errors), TxtSubmitWord)
        /\ Contains(Lower(Last(errors)), TxtSubmitLower)
        /\ StartsWith(Last(errors), TxtRow \o StrNat(index + 1) \o TxtColon)
        /\ Contains(Last(errors), StrNat(index + 1))
        /\ ~row_log.confirm_waited
        /\ ~row_log.clicked

C9_Witness ==
    /\ pc = "count"
    /\ row_log.submit_lookup = "timeout"
    /\ index = 1

(* C10: within _submit_row the Field Filler is called for a column if and  *)
(* only if normalize(column name) is a key of the field map; a column with *)
(* no normalized match is skipped and never appears among the failed       *)
(* fields.                                                                 *)
C10_FillIffNormalizedMatch ==
    InRow =>
       /\ Len(row_log.filled) + Len(row_log.skipped)
             = (IF row_log.navigated THEN col - 1 ELSE 0)
       /\ \A j \in 1..(col - 1) :
             LET column == df[index + 1][j][1] IN
             /\ InSeq(column, row_log.filled)
                   <=> (normalize(py_str(column)) \in DOMAIN form_map)
             /\ InSeq(column, row_log.skipped)
                   <=> (normalize(py_str(column)) \notin DOMAIN form_map)
             /\ InSeq(column, failed_fields) => InSeq(column, row_log.filled)

C10_Witness ==
    /\ pc = "count"
    /\ row_log.filled = <<ColName, ColDob>>
    /\ row_log.skipped = <<ColZip>>
    /\ py_str(ColName) \notin DOMAIN form_map
    /\ failed_fields = <<ColName>>

(* C11, as claimed: a field that fails to fill does not abort the row.     *)
(* Once the form was opened, whatever mapped fields failed to fill (all of *)
(* them included), _submit_row goes on to wait for the Submit control and, *)
(* when it is found and scrolled to, to click it: the row then ends as the *)
(* submit sequence decides (a "Submit button not found" message on a       *)
(* timeout, True once the confirmation is observed).                       *)
C11_Original ==
    (pc = "count" /\ row_log.navigated /\ failed_fields # << >>) =>
        /\ row_log.submit_lookup # "none"
        /\ (row_log.submit_lookup = "ok" /\ ~row_log.driver_failed)
              => row_log.clicked
        /\ row_log.submit_lookup = "timeout"
              => Last(errors) = RowMsg(index, TxtSubmitNotFound)
        /\ row_log.confirmed => row_result


(* C12: normalize is idempotent.  For every text x (line breaks,           *)
(* asterisks, leading, trailing and repeated inner whitespace, upper-case  *)
(* letters included), normalize(normalize(x)) = normalize(x).              *)
C12_NormalizeIdempotent ==
    (call.fn = "normalize" /\ call.step = "again") => call.again = call.out

\* A label with a line break, an asterisk, whitespace at both ends and
\* doubled inside, and capitals, that normalize changed.
C12_Witness ==
    /\ call.fn = "normalize"
    /\ call.step = "again"
    /\ call.arg = StrVal(LblFullName)
    /\ call.out = TxtFullName

\* The (day, month, year) a written date encodes under its own pattern.
Encoded(w) == [day |-> w.day, month |-> w.month, year |-> w.year]

\* A calendar date: integers that datetime accepts as a date.
IsCalendarDate(t) ==
    /\ t.day \in 1..31 /\ t.month \in 1..12 /\ t.year \in 1..9999
    /\ ValidDate(t.day, t.month, t.year)

(* C13, as claimed: for every valid date written in one of the six         *)
(* patterns, _parse_date_value returns exactly the (day, month, year) the  *)
(* text encodes under the pattern it was written in.                       *)
C13_Original ==
    (call.fn = "parse_date_value" /\ call.step = "returned"
        /\ call.written.fmt # 0)
    => call.out = Encoded(call.written)

(* C13, amended: the first format of the list that parses the text wins.   *)
(* A valid date written as DD-MM-YYYY, YYYY-MM-DD, MM/DD/YYYY, DD-MM-YY    *)
(* or YYYY/MM/DD is returned exactly; one written as DD/MM/YYYY is         *)
(* returned exactly when its day is above 12 or equals its month, and      *)
(* with day and month exchanged otherwise (it is read as MM/DD/YYYY).      *)
C13_FirstFormatWins ==
    (call.fn = "parse_date_value" /\ call.step = "returned"
        /\ call.written.fmt # 0)
    => LET w == call.written IN
       IF w.fmt = 4 /\ w.day <= 12 /\ w.day # w.month
       THEN call.out = [day |-> w.month, month |-> w.day, year |-> w.year]
       ELSE call.out = Encoded(w)

\* 05/08/1990, written as DD/MM/YYYY, comes back as the 8th of May.
C13_Witness ==
    /\ call.fn = "parse_date_value"
    /\ call.step = "returned"
    /\ call.written = [fmt |-> 4, day |-> 5, month |-> 8, year |-> 1990]
    /\ call.out = [day |-> 8, month |-> 5, year |-> 1990]

(* C14, as claimed: _parse_date_value is total and all-or-nothing.  For    *)
(* every value (a text, a number, the missing-value marker, a date-time,   *)
(* any other type) it returns without raising, and what it returns is a    *)
(* complete calendar (day, month, year) or all three None; a text that     *)
(* matches no pattern and a value of an unsupported type give all None.    *)
C14_Original ==
    (call.fn = "parse_date_value" /\ call.step = "returned") =>
        /\ call.out = NoDate \/ IsCalendarDate(call.out)
        /\ (call.value.t = "str" /\ call.value.s \in UnparseableTexts)
              => call.out = NoDate
        /\ call.value.t = "other" => call.out = NoDate

\* One step as job j's record sees it: a record is created as pending; its
\* status only moves pending -> running -> completed | failed, to running
\* exactly when the background task starts; a completed or failed record
\* is never changed again.
LifecycleStep(j) ==
    /\ (j \notin DOMAIN job_status /\ j \in DOMAIN job_status')
          => job_status'[j] = new_job(j) /\ job_status'[j].status = "pending"
    /\ j \in DOMAIN job_status =>
          /\ j \in DOMAIN job_status'
          /\ job_status'[j].status # job_status[j].status
                => <<job_status[j].status, job_status'[j].status>>
                      \in {<<"pending", "running">>, <<"running", "completed">>,
                           <<"running", "failed">>}
          /\ (job_status[j].status = "pending"
                /\ job_status'[j].status = "running")
                => (task.pc = "queued" /\ task'.pc = "run" /\ pc' = "start")
          /\ job_status[j].status \in {"completed", "failed"}
                => job_status'[j] = job_status[j]

(* C15: a job record follows the lifecycle pending -> running ->           *)
(* (completed | failed) only: it is created as pending by submit_form,     *)
(* becomes running when the background task starts, and once completed or  *)
(* failed no later step changes any of its fields.                         *)
C15_JobLifecycle == [][\A j \in JobIds : LifecycleStep(j)]_vars

\* A job that completed after two rows, its task finished, polled since.
C15_Witness ==
    /\ task.pc = "done"
    /\ job_status[1].status = "completed"
    /\ job_status[1].current_row = 2
    /\ snapshot = get_job_status(job_status, 1)

\* A snapshot whose counters agree.
ConsistentSnapshot(body) ==
    /\ body.success_count + body.fail_count = body.current_row
    /\ body.current_row <= body.total_rows

\* One step as the writers and readers of job_status take it: a record is
\* added by submit_form alone, changed by the background task of its job
\* alone, and a poll changes nothing in it.
WriterStep ==
    /\ snapshot' # snapshot => job_status' = job_status
    /\ \A j \in DOMAIN job_status :
          /\ j \in DOMAIN job_status'
          /\ job_status'[j] # job_status[j]
                => (task.job_id = j /\ task.pc \in {"queued", "run"}
                    /\ snapshot' = snapshot)
    /\ \A j \in DOMAIN job_status' \ DOMAIN job_status :
          task.pc = "none" /\ task'.job_id = j

(* C16: the job record is written by the job's background task only and    *)
(* only read by the polling endpoint, and every snapshot a poll returns,   *)
(* however the poll falls between the updates of the task, is consistent:  *)
(* success_count + fail_count = current_row and current_row <= total_rows. *)
C16_ConsistentSnapshots ==
    /\ [](snapshot.kind = "json" => ConsistentSnapshot(snapshot.body))
    /\ [][WriterStep]_vars

\* A poll that fell between the callbacks of row 1 and row 2.
C16_Witness ==
    /\ snapshot.kind = "json"
    /\ snapshot.body.status = "running"
    /\ snapshot.body.current_row = 1
    /\ job_status[1].current_row = 2

\* A returned call of the Field Filler for a field that is no date field.
FieldCallReturned ==
    /\ call.fn = "fill_field_with_retry"
    /\ call.step = "returned"
    /\ call.field_info.type # "date"

\* A returned call of the date filler, direct or through the Field Filler.
DateCallReturned ==
    /\ call.fn \in {"fill_field_with_retry", "fill_date_field"}
    /\ call.step = "returned"
    /\ call.field_info.type = "date"

\* The value of the call is one _parse_date_value returns a None for.
Unparseable ==
    LET parsed == parse_date_value(call.value) IN
    parsed.day = None \/ parsed.month = None \/ parsed.year = None

(* C17: for a field that is no date field, _fill_field_with_retry makes at *)
(* most max_retries attempts, returns True at the first attempt whose      *)
(* value read back is not empty and makes no attempt after it, and returns *)
(* False without raising when every attempt fails, by an exception of the  *)
(* driver or by an empty value read back.                                  *)
C17_FillFieldRetries ==
    FieldCallReturned =>
        LET out == call.out
            sc  == call.script
        IN /\ out.attempts \in 1..max_retries
           /\ out.ok <=> \E a \in 1..max_retries : sc[a] = "ok"
           /\ out.ok => /\ sc[out.attempts] = "ok"
                        /\ \A a \in 1..(out.attempts - 1) : sc[a] # "ok"
                        /\ out.typed[1].keys = py_str(call.value)
           /\ ~out.ok => /\ out.attempts = max_retries
                         /\ out.typed = << >>
           /\ out.raised
                = Cardinality({a \in 1..out.attempts : sc[a] = "exc"})

\* The first attempt raised, the second read back a value: True, and the
\* third attempt was not made.
C17_Witness ==
    /\ FieldCallReturned
    /\ call.script = <<"exc", "ok", "ok">>
    /\ call.out.ok
    /\ call.out.attempts = 2
    /\ call.out.raised = 1

(* C18: _fill_date_field called with a value _parse_date_value cannot      *)
(* parse returns False at once: no attempt of the retry loop is made, so   *)
(* no element is looked up, clicked or typed into and no script is run.    *)
C18_UnparseableDateFailsAtOnce ==
    (DateCallReturned /\ Unparseable) =>
        /\ ~call.out.ok
        /\ call.out.attempts = 0
        /\ call.out.raised = 0
        /\ call.out.typed = << >>
        /\ call.out.strategy = "none"

\* "not-a-date" for a date-typed input the driver would have filled.
C18_Witness ==
    /\ DateCallReturned
    /\ call.value = StrVal(TxtNotADate)
    /\ call.inputs = <<DateInput>>
    /\ call.script = <<"ok", "ok", "ok">>
    /\ ~call.out.ok

\* The label text of the input marks it as the input of a component.
IsInputOf(component, inp) ==
    CASE component = "day" ->
            Contains(inp.hint, TxtDay) \/ Contains(inp.hint, TxtDD)
      [] component = "month" ->
            Contains(inp.hint, TxtMonth) \/ Contains(inp.hint, TxtMM)
      [] component = "year" ->
            Contains(inp.hint, TxtYear) \/ Contains(inp.hint, TxtYYYY)

\* The text of a component of the parsed value as the filler types it.
ComponentKeys(component, parsed) ==
    CASE component = "day" -> zfill(component_str(parsed.day), 2)
      [] component = "month" -> zfill(component_str(parsed.month), 2)
      [] component = "year" -> component_str(parsed.year)

(* C19, as claimed: when _fill_date_field returns True through the branch  *)
(* for three or more inputs, each of the parsed day, month and year has    *)
(* been typed into one of the container's inputs: the day into a day       *)
(* input, the month into a month input, the year into a year input.        *)
C19_Original ==
    (DateCallReturned /\ call.out.ok /\ call.out.strategy = "three_inputs"
        /\ IsCalendarDate(parse_date_value(call.value)))
    => \A component \in {"day", "month", "year"} :
          \E k \in 1..Len(call.out.typed) :
             /\ call.out.typed[k].keys
                   = ComponentKeys(component, parse_date_value(call.value))
             /\ IsInputOf(component, call.inputs[call.out.typed[k].input])

\* The number of inputs of the container whose type is in types.
CountInputs(inputs, types) ==
    Cardinality({i \in 1..Len(inputs) : inputs[i].type \in types})

\* The branch the order "three or more text or tel inputs, one date-typed
\* input, first input there is" selects for a container.
FirstApplicable(inputs) ==
    IF CountInputs(inputs, {"text", "tel"}) >= 3 THEN "three_inputs"
    ELSE IF CountInputs(inputs, {"date"}) >= 1 THEN "date_input"
    ELSE IF \E i \in 1..Len(inputs) : inputs[i].type # "textarea"
         THEN "first_input"
    ELSE "none"

(* C20: in each attempt of _fill_date_field the branches are tried in the  *)
(* order three or more text/tel inputs, one date-typed input, first input  *)
(* there is; the first that applies and completes without raising returns *)
(* True; at most max_retries attempts are made, and when no attempt        *)
(* succeeds (the container has no input, or every attempt raises) the      *)
(* result is False and nothing is raised.                                  *)
C20_DateStrategyOrder ==
    (DateCallReturned /\ ~Unparseable) =>
        LET out == call.out
            sc  == call.script
            expected == FirstApplicable(call.inputs)
        IN /\ out.attempts \in 1..max_retries
           /\ out.ok <=> (expected # "none"
                          /\ \E a \in 1..max_retries : sc[a] # "exc")
           /\ out.ok => /\ out.strategy = expected
                        /\ sc[out.attempts] # "exc"
                        /\ \A a \in 1..(out.attempts - 1) : sc[a] = "exc"
           /\ ~out.ok => /\ out.attempts = max_retries
                         /\ out.strategy = "none"
           /\ out.raised
                = Cardinality({a \in 1..out.attempts : sc[a] = "exc"})

\* A container with a date-typed input and three labelled text inputs: the
\* first attempt raised, the second took the three-inputs branch.
C20_Witness ==
    /\ DateCallReturned
    /\ call.inputs = <<DateInput, DayInput, MonthInput, YearInput>>
    /\ call.script = <<"exc", "ok", "ok">>
    /\ call.out.ok
    /\ call.out.strategy = "three_inputs"
    /\ call.out.attempts = 2

-----------------------------------------------------------------------------
(* C21: once the page has rendered and is not restricted,                  *)
(* _extract_form_mapping tries the selectors in their fixed order, stops   *)
(* at the first one that matches a container and builds the mapping from   *)
(* the matches of that one; when none matches it raises "No form questions *)
(* found" and returns no mapping.                                          *)

MappingReturned ==
    /\ call.fn = "extract_form_mapping"
    /\ call.step \in {"returned", "resolved"}

DiscoveryReached == call.page.body /\ ~call.page.denied

Matching(pg) == {k \in 1..NumSelectors : FindBySelector(pg, k) # << >>}

Least(S) == CHOOSE k \in S : \A j \in S : k <= j

C21_FirstStrategyWins ==
    (MappingReturned /\ DiscoveryReached)
    => IF Matching(call.page) # {}
       THEN LET k == Least(Matching(call.page)) IN
            /\ call.out.exc = NoExc
            /\ call.out.tried = [j \in 1..k |-> j]
            /\ call.out.questions = FindBySelector(call.page, k)
            /\ call.out.mapping =
                  map_questions(FindBySelector(call.page, k), 0, EmptyMap,
                                call.raised)
       ELSE /\ call.out.exc = ExcNoQuestions
            /\ call.out.mapping = EmptyMap
            /\ call.out.tried = [j \in 1..NumSelectors |-> j]

\* The first selector matched nothing and the second won, although the
\* third, never tried, matches a div as well.
C21_Witness ==
    /\ MappingReturned
    /\ call.out.tried = <<1, 2>>
    /\ FindBySelector(call.page, 3) # << >>
    /\ Len(call.out.questions) < Len(call.page.divs)
    /\ DOMAIN call.out.mapping # {}

-----------------------------------------------------------------------------
(* C22, as claimed: for every entry of the mapping, whichever selector     *)
(* found the containers, looking its stored xpath up on the unchanged page *)
(* selects an input of the container the entry's label was read from.      *)

\* The positions in the document of the divs selector k matches.
SelectorPositions(pg, k) ==
    SelectSeq([i \in 1..Len(pg.divs) |-> i],
              LAMBDA i : k \in pg.divs[i].marks)

C22_Original ==
    (call.fn = "extract_form_mapping" /\ call.step = "resolved")
    => LET info == call.out.mapping[call.key]
           from == SelectorPositions(call.page, Last(call.out.tried))
           to   == SelectorPositions(call.page, ListItemSelector)
       IN /\ call.found # << >>
          /\ info.index <= Len(to)
          /\ to[info.index] = from[info.index]

-----------------------------------------------------------------------------
(* C23.  The mapping has one entry per distinct normalized label among    *)
(* the containers of the set mapped; when several of them share a          *)
(* normalized label the entry is that of the last in document order; and   *)
(* the index of an entry is the 1-based position of its container among    *)
(* all the containers found, the skipped ones counted.                     *)

Mappable(questions) ==
    {i \in 1..Len(questions) :
        questions[i].hasHeading /\ questions[i].inputs # << >>}

Greatest(S) == CHOOSE k \in S : \A j \in S : j <= k

LastOfMappedWins(mapped) ==
    LET qs == call.out.questions
        keyOf(i) == normalize(qs[i].heading)
    IN /\ DOMAIN call.out.mapping = {keyOf(i) : i \in mapped}
       /\ \A key \in DOMAIN call.out.mapping :
             LET last == Greatest({i \in mapped : keyOf(i) = key})
                 info == call.out.mapping[key]
             IN /\ info.index = last
                /\ info.label = qs[last].heading
                /\ info.type = qs[last].inputs[1].type
                /\ xpath_index(info.xpath) = last

(* C23, as claimed: mapped is the set of the containers that have a        *)
(* heading and an input or textarea.                                       *)
C23_Original ==
    (MappingReturned /\ call.out.exc = NoExc)
    => LastOfMappedWins(Mappable(call.out.questions))

(* C23, amended: mapped is the set of the containers that have a heading   *)
(* and an input or textarea and on which no driver call of the mapping     *)
(* loop raised: a container on which one raises is passed over like one    *)
(* without input.                                                          *)
C23_LastContainerWins ==
    (MappingReturned /\ call.out.exc = NoExc)
    => LastOfMappedWins(Mappable(call.out.questions) \ call.raised)

\* Three containers: one without an input, then two with the same
\* normalized label; the entry is the third.
C23_Witness ==
    /\ MappingReturned
    /\ call.raised = {}
    /\ Len(call.out.questions) = 3
    /\ Mappable(call.out.questions) = {2, 3}
    /\ DOMAIN call.out.mapping = {normalize(LblName)}
    /\ call.out.mapping[normalize(LblName)].index = 3
    /\ call.out.questions[2].heading # call.out.questions[3].heading

-----------------------------------------------------------------------------
(* C24: self.form_map is built once per run, before the first row: it is   *)
(* assigned by the one call of _extract_form_mapping, when no row has been *)
(* attempted, and from the first row on it is the mapping of the page,     *)
(* with at least one entry, and no step of _submit_row, of the fillers or  *)
(* of the confirmation wait adds, removes or changes an entry.             *)

\* The mappings one call of _extract_form_mapping can return for the page.
PossibleMaps(pg) ==
    {extract_form_mapping(pg, raised).mapping :
        raised \in SUBSET (1..Len(pg.divs))}

MapAssigned ==
    /\ pc = "map"
    /\ attempted = << >>
    /\ form_map = EmptyMap
    /\ form_map' \in PossibleMaps(page)

C24_MapBuiltOnce ==
    /\ [](attempted # << >> =>
            /\ DOMAIN form_map # {}
            /\ form_map \in PossibleMaps(page))
    /\ [][form_map' # form_map => MapAssigned]_vars

C24_Witness ==
    /\ pc = "done"
    /\ Len(attempted) = 2
    /\ Cardinality(DOMAIN form_map) = 2
    /\ errors # << >>

-----------------------------------------------------------------------------
(* C25: run raises only before the first row is processed.  Once a row has *)
(* been attempted no exception is pending or raised and run ends by        *)
(* returning its result, so every job whose status is failed has           *)
(* current_row = 0, success_count = 0 and fail_count = 0.                  *)

C25_FatalOnlyBeforeRows ==
    /\ (exc # NoExc \/ Raised) =>
          (attempted = << >> /\ success_count = 0 /\ fail_count = 0)
    /\ (attempted # << >> /\ pc = "done") => Returned
    /\ \A j \in DOMAIN job_status :
          job_status[j].status = "failed" =>
             /\ job_status[j].current_row = 0
             /\ job_status[j].success_count = 0
             /\ job_status[j].fail_count = 0

\* A job over a sheet of two rows that failed on a restricted form.
C25_Witness ==
    /\ 1 \in DOMAIN job_status
    /\ job_status[1].status = "failed"
    /\ Len(df) = 2
    /\ Raised
    /\ outcome.exc = ExcDenied

-----------------------------------------------------------------------------
(* C26.  A message belongs to row k when it begins with lead[k].  After    *)
(* any number of rows: every row counted as failed has a message of its    *)
(* own, no row has more than two, the messages are in row order, and so    *)
(* fail_count <= len(errors) <= 2 * rows processed.                        *)

MessagesOfRow(lead, k) ==
    {a \in 1..Len(errors) : StartsWith(errors[a], lead[k])}

RowsCountedFailed == {k \in 1..Counted : ~history[k].confirmed}

ErrorsPerRow(lead) ==
    /\ fail_count = Cardinality(RowsCountedFailed)
    /\ \A k \in RowsCountedFailed : MessagesOfRow(lead, k) # {}
    /\ \A k \in 1..Len(attempted) : Cardinality(MessagesOfRow(lead, k)) <= 2
    /\ \A k, l \in 1..Len(attempted) :
          \A a \in MessagesOfRow(lead, k), b \in MessagesOfRow(lead, l) :
              a < b => k <= l
    /\ fail_count <= Len(errors)
    /\ Len(errors) <= 2 * Len(attempted)

\* str(k): the row's 1-based index itself.
LeadIndex == [k \in 1..MaxRows |-> StrNat(k)]

\* f"Row {k}: "
LeadRowIndex == [k \in 1..MaxRows |-> TxtRow \o StrNat(k) \o TxtColon]

(* C26, as claimed: the message of a failed row begins with the row's      *)
(* 1-based index.                                                          *)
C26_Original == ErrorsPerRow(LeadIndex)

(* C26, amended: the message of a failed row begins with "Row k: ", k the  *)
(* row's 1-based index; every message of the list is one of some attempted *)
(* row.                                                                    *)
C26_ErrorsPerRow ==
    /\ ErrorsPerRow(LeadRowIndex)
    /\ \A a \in 1..Len(errors) :
          \E k \in 1..Len(attempted) : a \in MessagesOfRow(LeadRowIndex, k)

\* Two rows, both failed, each with a failed-fields message and a second
\* message.
C26_Witness ==
    /\ Returned
    /\ outcome.value.fail_count = 2
    /\ Len(outcome.value.errors) = 4

-----------------------------------------------------------------------------
(* C27: with a sheet of finitely many rows and a driver whose every call   *)
(* and wait returns, raises or times out, run eventually ends, by          *)
(* returning its result or by raising, and the session it opened has been  *)
(* released.                                                               *)

Terminated ==
    /\ pc = "done"
    /\ Returned \/ Raised
    /\ driver # "open"

C27_RunTerminates == <>Terminated

\* run ended after the retry loop of a fill ran out on both rows.
C27_Witness ==
    /\ Terminated
    /\ driver = "quit"
    /\ Len(attempted) = 2
    /\ \A k \in 1..2 : history[k].failed # << >>

====
